---- MODULE Spec2Model ----
(***************************************************************************)
(* Verification model of the entry-task application server (tcpserver):    *)
(* the Snowflake identifier generator, the KvStore-backed session store,   *)
(* login limiter and user cache, the user repository and service, and the  *)
(* gRPC interceptor chain with its handlers.                               *)
(***************************************************************************)
EXTENDS Integers, Sequences, FiniteSets, Bags, TLC

(***************************************************************************)
(* Bounds of the model.                                                    *)
(***************************************************************************)
\* Clock readings (time.Now().UnixMilli()) range over 0..MaxClock.
MaxClock == 2

(***************************************************************************)
(* Bit arithmetic on non-negative integers (Go's <<, >>, & and |).         *)
(***************************************************************************)
RECURSIVE Pow2(_)
Pow2(n) == IF n = 0 THEN 1 ELSE 2 * Pow2(n - 1)

ShiftLeft(x, n) == x * Pow2(n)

ShiftRight(x, n) == x \div Pow2(n)

RECURSIVE BitAnd(_, _)
BitAnd(a, b) ==
    IF a = 0 \/ b = 0 THEN 0
    ELSE (IF a % 2 = 1 /\ b % 2 = 1 THEN 1 ELSE 0) + 2 * BitAnd(a \div 2, b \div 2)

RECURSIVE BitOr(_, _)
BitOr(a, b) ==
    IF a = 0 THEN b
    ELSE IF b = 0 THEN a
    ELSE (IF a % 2 = 1 \/ b % 2 = 1 THEN 1 ELSE 0) + 2 * BitOr(a \div 2, b \div 2)

(***************************************************************************)
(* Snowflake (package db): constants.                                      *)
(***************************************************************************)
timestampBits == 41
machineIDBits == 10
sequenceBits == 12
\* -1 ^ (-1 << bits): the low `bits` bits set.
maxMachineID == Pow2(machineIDBits) - 1
maxSequence == Pow2(sequenceBits) - 1
machineIDShift == sequenceBits
timestampShift == sequenceBits + machineIDBits
\* The clock is counted in milliseconds from one millisecond before the
\* generator's epoch (2025-01-01 UTC), so reading 0 is before the epoch and
\* the epoch itself is reading 1.  The code uses clock values only in
\* comparisons and in the difference now - epoch.
epoch == 1
\* GetDefaultSnowflake: the process-wide generator is NewSnowflake(1).
defaultMachineID == 1

Max(a, b) == IF a >= b THEN a ELSE b

Min(a, b) == IF a <= b THEN a ELSE b

\* Concurrent callers of Snowflake.NextID.
Callers == {"c1", "c2"}
NoCaller == "none"
ClockReadings == 0..MaxClock
NoId == 0

VARIABLES
    \* Snowflake fields
    timestamp,   \* s.timestamp: the last timestamp an id was built for
    sequence,    \* s.sequence
    machineID,   \* s.machineID
    mu,          \* s.mu: NoCaller when unlocked, else the caller holding it
    \* each NextID call's position and locals
    sfPc,        \* caller -> "idle" | "lock" | "locked" | "wait" | "assemble"
    sfNow,       \* caller -> its local `now` (lastTimestamp while waiting)
    \* what NextID calls returned
    lastCall,    \* the most recent return: [err, now]
    lastId,      \* the id most recently returned (NoId: none yet)
    maxPrev,     \* the greatest id returned before lastId (NoId: none)
    sawRewind,   \* whether some NextID call has failed on a rewound clock
    \* external stores
    kv,          \* the KvStore (Redis): key -> [val, ttl]
    users,       \* the users table: id -> row
    uuidSeq,     \* how many UUIDs uuid.New() has produced
    \* request handling
    wk,          \* worker -> its call's position and locals
    setQ,        \* the rows of GetByID's pending SetUser goroutines (a bag)
    delQ,        \* the armed delayed second deletes: a bag of [id, svc]
    \* records of what happened
    win,         \* username -> the current failure window's record
    issued,      \* token -> the userId a successful Login returned it for
    ended,       \* tokens destroyed by Logout or expired
    nullHitRead, \* a GetByID read the store after its lookup hit a null marker
    settled,     \* id -> the nickname update of id (see UpdateSettled)
    recovered,   \* RecoveryInterceptor has caught a panic since the server started
    ctxDone      \* worker -> the deadline of its call's context has elapsed

sfVars == <<timestamp, sequence, machineID, mu, sfPc, sfNow, lastCall, lastId, maxPrev, sawRewind>>
storeVars == <<kv, users, uuidSeq>>
logVars == <<recovered, ctxDone>>
svcVars == <<kv, users, uuidSeq, wk, setQ, delQ, win, issued, ended, nullHitRead, settled, logVars>>
vars == <<sfVars, svcVars>>

\* NewSnowflake(machineID): the range check and the zeroed fields.
NewSnowflakeOk(m) == ~(m < 0 \/ m > maxMachineID)

SnowflakeInitWith(m) ==
    /\ machineID = m
    /\ NewSnowflakeOk(machineID)
    /\ timestamp = 0
    /\ sequence = 0
    /\ mu = NoCaller
    /\ sfPc = [c \in Callers |-> "idle"]
    /\ sfNow = [c \in Callers |-> 0]
    /\ lastCall = [err |-> "none", now |-> 0]
    /\ lastId = NoId
    /\ maxPrev = NoId
    /\ sawRewind = FALSE

\* GetDefaultSnowflake: NewSnowflake(1).
SnowflakeInit == SnowflakeInitWith(defaultMachineID)

\* An id assembled without its sequence field.
AssembleIDNoSequence(diff, m, seq) ==
    BitOr(ShiftLeft(diff, timestampShift), ShiftLeft(m, machineIDShift))

\* id := (diff << timestampShift) | (s.machineID << machineIDShift) | s.sequence
AssembleID(diff, m, seq) ==
    BitOr(BitOr(ShiftLeft(diff, timestampShift), ShiftLeft(m, machineIDShift)), seq)

\* A mutex that never blocks: the lock is taken whoever holds it.
MutexLockNoWait(c) == mu' = c

\* s.mu.Lock(): blocks until the mutex is free.
MutexLock(c) ==
    /\ mu = NoCaller
    /\ mu' = c

\* A caller invokes NextID.
SfCall(c) ==
    /\ sfPc[c] = "idle"
    /\ sfPc' = [sfPc EXCEPT ![c] = "lock"]
    /\ UNCHANGED <<timestamp, sequence, machineID, mu, sfNow, lastCall, lastId, maxPrev, sawRewind>>
    /\ UNCHANGED svcVars

\* s.mu.Lock() at the head of NextID.
SfLock(c) ==
    /\ sfPc[c] = "lock"
    /\ MutexLock(c)
    /\ sfPc' = [sfPc EXCEPT ![c] = "locked"]
    /\ UNCHANGED <<timestamp, sequence, machineID, sfNow, lastCall, lastId, maxPrev, sawRewind>>
    /\ UNCHANGED svcVars

\* s.sequence = (s.sequence + 1) & maxSequence
NextSequence(seq) == BitAnd(seq + 1, maxSequence)

\* No rewind check at all.
ClockRewoundNever(now, last) == FALSE

\* if now < s.timestamp
ClockRewound(now, last) == now < last

\* NextID from the clock reading to the sequence update: the rewind check
\* returns (deferred Unlock), the same millisecond increments the sequence and
\* on wrap-around enters waitNextMillis(s.timestamp), a new millisecond resets it.
SfAdvance(c) ==
    /\ sfPc[c] = "locked"
    /\ \E now \in ClockReadings :
        IF ClockRewound(now, timestamp)
        THEN /\ lastCall' = [err |-> "ClockRewound", now |-> now]
             /\ sawRewind' = TRUE
             /\ mu' = NoCaller
             /\ sfPc' = [sfPc EXCEPT ![c] = "idle"]
             /\ UNCHANGED <<timestamp, sequence, sfNow>>
        ELSE IF now = timestamp
        THEN /\ sequence' = NextSequence(sequence)
             /\ IF sequence' = 0
                THEN /\ sfPc' = [sfPc EXCEPT ![c] = "wait"]
                     /\ sfNow' = [sfNow EXCEPT ![c] = timestamp]
                ELSE /\ sfPc' = [sfPc EXCEPT ![c] = "assemble"]
                     /\ sfNow' = [sfNow EXCEPT ![c] = now]
             /\ UNCHANGED <<timestamp, mu, lastCall, sawRewind>>
        ELSE /\ sequence' = 0
             /\ sfPc' = [sfPc EXCEPT ![c] = "assemble"]
             /\ sfNow' = [sfNow EXCEPT ![c] = now]
             /\ UNCHANGED <<timestamp, mu, lastCall, sawRewind>>
    /\ UNCHANGED <<machineID, lastId, maxPrev>>
    /\ UNCHANGED svcVars

\* A waitNextMillis that returns on a reading equal to lastTimestamp.
SfWaitNextMillisSameMillis(c) ==
    /\ sfPc[c] = "wait"
    /\ \E now \in ClockReadings :
        IF now < sfNow[c]
        THEN UNCHANGED <<sfPc, sfNow>>
        ELSE /\ sfPc' = [sfPc EXCEPT ![c] = "assemble"]
             /\ sfNow' = [sfNow EXCEPT ![c] = now]
    /\ UNCHANGED <<timestamp, sequence, machineID, mu, lastCall, lastId, maxPrev, sawRewind>>
    /\ UNCHANGED svcVars

\* waitNextMillis(lastTimestamp): one turn of the loop; sfNow[c] holds
\* lastTimestamp.  A reading that is not later sleeps and reads again.
SfWaitNextMillis(c) ==
    /\ sfPc[c] = "wait"
    /\ \E now \in ClockReadings :
        IF now <= sfNow[c]
        THEN UNCHANGED <<sfPc, sfNow>>
        ELSE /\ sfPc' = [sfPc EXCEPT ![c] = "assemble"]
             /\ sfNow' = [sfNow EXCEPT ![c] = now]
    /\ UNCHANGED <<timestamp, sequence, machineID, mu, lastCall, lastId, maxPrev, sawRewind>>
    /\ UNCHANGED svcVars

\* s.timestamp = now; the epoch check; the id; return (deferred Unlock).
SfAssemble(c) ==
    /\ sfPc[c] = "assemble"
    /\ timestamp' = sfNow[c]
    /\ LET diff == sfNow[c] - epoch IN
        IF diff < 0
        THEN /\ lastCall' = [err |-> "BeforeEpoch", now |-> sfNow[c]]
             /\ UNCHANGED <<lastId, maxPrev>>
        ELSE /\ lastCall' = [err |-> "nil", now |-> sfNow[c]]
             /\ lastId' = AssembleID(diff, machineID, sequence)
             /\ maxPrev' = Max(maxPrev, lastId)
    /\ mu' = NoCaller
    /\ sfPc' = [sfPc EXCEPT ![c] = "idle"]
    /\ sfNow' = [sfNow EXCEPT ![c] = 0]
    /\ UNCHANGED <<sequence, machineID, sawRewind>>
    /\ UNCHANGED svcVars

\* A parse that leaves the timestamp bits in the machine id.
ParseSnowflakeIDNoMask(id) ==
    [timestamp |-> ShiftRight(id, timestampShift) + epoch,
     machineID |-> ShiftRight(id, machineIDShift),
     sequence  |-> BitAnd(id, maxSequence)]

\* ParseSnowflakeID(id): sequence = id & maxSequence,
\* machineID = (id >> machineIDShift) & maxMachineID,
\* timestamp = (id >> timestampShift) + epoch.
ParseSnowflakeID(id) ==
    [timestamp |-> ShiftRight(id, timestampShift) + epoch,
     machineID |-> BitAnd(ShiftRight(id, machineIDShift), maxMachineID),
     sequence  |-> BitAnd(id, maxSequence)]

NextID(c) ==
    \/ SfCall(c)
    \/ SfLock(c)
    \/ SfAdvance(c)
    \/ SfWaitNextMillis(c)
    \/ SfAssemble(c)

(***************************************************************************)
(* Strings are sequences of characters; a character is a one-letter string *)
(* (one byte in UTF-8) or a record [rune, width] for a wider code point.   *)
(***************************************************************************)
Empty == <<>>

\* utf8.RuneCountInString
RuneCount(str) == Len(str)

RECURSIVE ByteLen(_)
\* len(string): the bytes of the UTF-8 encoding
ByteLen(str) ==
    IF str = <<>> THEN 0
    ELSE (IF Head(str) \in STRING THEN 1 ELSE Head(str).width) + ByteLen(Tail(str))

LowerCase == {"a","b","c","d","e","f","g","h","i","j","k","l","m",
              "n","o","p","q","r","s","t","u","v","w","x","y","z"}
UpperCase == {"A","B","C","D","E","F","G","H","I","J","K","L","M",
              "N","O","P","Q","R","S","T","U","V","W","X","Y","Z"}
Digits == {"0","1","2","3","4","5","6","7","8","9"}

\* usernameRegex = ^[a-zA-Z0-9_]{3,50}$
usernameRegexMatch(str) ==
    /\ Len(str) >= 3
    /\ Len(str) <= 50
    /\ \A i \in 1..Len(str) : str[i] \in LowerCase \cup UpperCase \cup Digits \cup {"_"}

(***************************************************************************)
(* The users table and the KvStore.                                        *)
(***************************************************************************)
\* alice's id is the one the service tests use; the other two follow it.
AliceId == 123456
BobId == AliceId + 1
GhostId == AliceId + 2

alice == <<"a","l","i","c","e">>
bob == <<"b","o","b">>
ghost == <<"g","h","o","s","t">>
TestPassword == <<"T","e","s","t","@","1","2","3">>
WrongPass == <<"W","r","o","n","g","P","a","s","s">>
NickAlice == <<"A","l","i","c","e">>
NickAlicia == <<"A","l","i","c","i","a">>
NickBob == <<"B","o","b">>
Pic0 == <<"p","0">>
Pic1 == <<"p","1">>

\* bcrypt.GenerateFromPassword / CompareHashAndPassword: a hash matches the
\* password it was made from and no other.
BcryptHash(password) == <<"$2a$", password>>
CompareHashAndPassword(hash, password) == hash = BcryptHash(password)

\* model.User; a column the query does not select stays the zero value.
User(id, username, hash, nickname, picture) ==
    [ID |-> id, Username |-> username, PasswordHash |-> hash,
     Nickname |-> nickname, ProfilePicture |-> picture]

NilUser == User(0, Empty, Empty, Empty, Empty)

\* The table as provisioned: alice and bob; no row has id GhostId or
\* username ghost.
UsersInit ==
    (AliceId :> User(AliceId, alice, BcryptHash(TestPassword), NickAlice, Pic0))
    @@ (BobId :> User(BobId, bob, BcryptHash(TestPassword), NickBob, Pic0))

\* SELECT ... FROM users WHERE username = ?  (sql.ErrNoRows: NilUser)
SelectByUsername(tbl, username) ==
    IF \E id \in DOMAIN tbl : tbl[id].Username = username
    THEN tbl[CHOOSE id \in DOMAIN tbl : tbl[id].Username = username]
    ELSE NilUser

\* SELECT id, username, nickname, profile_picture FROM users WHERE id = ?
SelectProfileByID(tbl, id) ==
    IF id \in DOMAIN tbl
    THEN User(tbl[id].ID, tbl[id].Username, Empty, tbl[id].Nickname, tbl[id].ProfilePicture)
    ELSE NilUser

\* Key prefixes and TTLs (seconds).
SessionKeyPrefix == "sess:"
LoginFailKeyPrefix == "login_fail:"
UserCacheKeyPrefix == "user:"
SessionTTL == 7200
LoginFailTTL == 900
UserCacheTTL == 1800
NullCacheTTL == 300
NullCacheValue == <<"N","U","L","L">>
MaxLoginFailures == 5

SessionKey(token) == <<SessionKeyPrefix, token>>
LoginFailKey(username) == <<LoginFailKeyPrefix, username>>
UserCacheKey(id) == <<UserCacheKeyPrefix, id>>

\* Redis values: a decimal string (what Set stores for an integer and INCR
\* works on) or a JSON document.
RedisNil == [kind |-> "redis: nil"]
IntString(n) == [kind |-> "int", n |-> n]
JsonString(obj) == [kind |-> "json", obj |-> obj]

\* redisClient.Get
RedisGet(store, key) == IF key \in DOMAIN store THEN store[key].val ELSE RedisNil

\* redisClient.Set (ttl 0: no expiry)
RedisSet(store, key, val, ttl) ==
    [k \in DOMAIN store \cup {key} |->
        IF k = key THEN [val |-> val, ttl |-> ttl] ELSE store[k]]

\* redisClient.Del
RedisDel(store, key) == [k \in DOMAIN store \ {key} |-> store[k]]

\* redisClient.Expire: no effect on a missing key
RedisExpire(store, key, ttl) ==
    IF key \in DOMAIN store THEN [store EXCEPT ![key].ttl = ttl] ELSE store

\* redisClient.Incr: a missing key counts from 0; the TTL is kept
RedisIncr(store, key) ==
    IF key \in DOMAIN store
    THEN [store EXCEPT ![key].val = IntString(@.n + 1)]
    ELSE RedisSet(store, key, IntString(1), 0)

\* strconv.ParseInt / Cmd.Uint64 of a stored value; -1: not a number
ParseInt(val) == IF val.kind = "int" THEN val.n ELSE -1

\* redis.CachedUser and its JSON document
CachedUser(id, username, nickname, picture) ==
    [ID |-> id, Username |-> username, Nickname |-> nickname, ProfilePicture |-> picture]

NilCached == CachedUser(0, Empty, Empty, Empty)

\* json.Marshal(CachedUser)
MarshalCachedUser(cu) ==
    JsonString([id |-> cu.ID, username |-> cu.Username,
                nickname |-> cu.Nickname, profile_picture |-> cu.ProfilePicture])

\* json.Unmarshal into a CachedUser (the value is a JSON document)
UnmarshalCachedUser(val) ==
    CachedUser(val.obj.id, val.obj.username, val.obj.nickname, val.obj.profile_picture)

(***************************************************************************)
(* Workers: each runs one call at a time.                                  *)
(***************************************************************************)
\* uuid.New() results available to the model.
MaxTokens == 2
\* Login calls recorded in one failure window.
MaxAttempts == 7

\* Concurrent clients; a specification of sequential calls uses the first.
Workers == {"w1", "w2"}
OneWorker == {"w1"}
\* uuid.New().String(): the n-th UUID
Uuid(n) == <<"uuid", n>>

\* The DTO of a service call (the fields a call does not have stay zero).
Dto(token, username, password, userID, nickname, picture) ==
    [Token |-> token, Username |-> username, Password |-> password,
     UserID |-> userID, Nickname |-> nickname, ProfilePicture |-> picture]

NilDto == Dto(Empty, Empty, Empty, 0, Empty, Empty)

\* dto.UserProfileDTO; NilProfile is the nil pointer.
Profile(id, username, nickname, picture) ==
    [ID |-> id, Username |-> username, Nickname |-> nickname, ProfilePicture |-> picture]

NilProfile == Profile(0, Empty, Empty, Empty)

\* What a service method returns.
Result(err, token, profile) == [err |-> err, token |-> token, profile |-> profile]

\* Incoming metadata: whether the context carries any, and its
\* "authorization" values.
NoMetadata == [ok |-> FALSE, authorization |-> <<>>]
Metadata(tokens) == [ok |-> TRUE, authorization |-> tokens]

\* An RPC in the interceptor chain: the method, the metadata's
\* "authorization" values, the request message, the context's user_id, the
\* layers entered so far and the response.
Rpc(method, md, req) ==
    [method |-> method, md |-> md, req |-> req, ctxUserID |-> 0,
     layers |-> <<>>, status |-> "none", code |-> 0 - 1]

NilRpc == Rpc("none", NoMetadata, NilDto)

\* pc and svc: where the call is and which service method it is in; uid and
\* user: GetByID's id and the row it got; sawNull: its cache lookup met a
\* null marker; fresh: the ids whose update was settled when the call began.
Idle ==
    [pc |-> "idle", svc |-> "none", dto |-> NilDto, user |-> NilUser, uid |-> 0,
     out |-> Result("nil", Empty, NilProfile),
     sawNull |-> FALSE, fresh |-> {}, rpc |-> NilRpc]

\* Username of the Login call worker w is in, if any.
InLogin(w, username) == wk[w].svc = "Login" /\ wk[w].pc # "ret" /\ wk[w].dto.Username = username

(***************************************************************************)
(* dto validators.                                                         *)
(***************************************************************************)
\* LoginDTO.Validate
ValidateLogin(d) ==
    IF d.Username = Empty THEN "ErrUsernameEmpty"
    ELSE IF ~usernameRegexMatch(d.Username) THEN "ErrUsernameInvalid"
    ELSE IF d.Password = Empty THEN "ErrPasswordEmpty"
    ELSE IF ByteLen(d.Password) < 6 THEN "ErrPasswordTooShort"
    ELSE IF ByteLen(d.Password) > 100 THEN "ErrPasswordTooLong"
    ELSE "nil"

\* UpdateNicknameDTO.Validate
ValidateUpdateNickname(d) ==
    IF d.UserID = 0 THEN "ErrUserIDInvalid"
    ELSE IF d.Nickname = Empty THEN "ErrNicknameEmpty"
    ELSE IF RuneCount(d.Nickname) > 50 THEN "ErrNicknameTooLong"
    ELSE "nil"

\* UpdateProfilePictureDTO.Validate
ValidateUpdateProfilePicture(d) ==
    IF d.UserID = 0 THEN "ErrUserIDInvalid"
    ELSE IF d.ProfilePicture = Empty THEN "ErrPictureURLEmpty"
    ELSE "nil"

\* ValidateTokenDTO.Validate and LogoutDTO.Validate
ValidateToken(d) == IF d.Token = Empty THEN "ErrTokenEmpty" ELSE "nil"

(***************************************************************************)
(* Records of what happened, kept for the properties.                      *)
(***************************************************************************)
\* A failure window of a username: the outcomes of the Login calls made
\* since the counter was last absent, and the GetByUsername calls they made.
\* It is clean while those calls ran one after another, each failed
\* authentication, the counter did not expire and no call met a fault.
FreshWindow == [clean |-> TRUE, outs |-> <<>>, lookups |-> 0]
DirtyWindow == [clean |-> FALSE, outs |-> <<>>, lookups |-> 0]

WindowOnStart(w, username) ==
    IF \E o \in Workers \ {w} : InLogin(o, username) THEN DirtyWindow
    ELSE IF LoginFailKey(username) \notin DOMAIN kv THEN FreshWindow
    ELSE win[username]

\* A Login call that passes validation joins or starts the window.
WindowOnLogin(w, d) ==
    IF ValidateLogin(d) = "nil" /\ d.Username \in DOMAIN win
    THEN [win EXCEPT ![d.Username] = WindowOnStart(w, d.Username)]
    ELSE win

WindowOnFault(username, fault) ==
    IF fault THEN [win EXCEPT ![username] = DirtyWindow] ELSE win

\* Keys that leave the store: an expired failure counter ends its window, an
\* expired session is over.
WindowOnExpire(key) ==
    [u \in DOMAIN win |-> IF key = LoginFailKey(u) THEN DirtyWindow ELSE win[u]]

EndedOnRemove(key) ==
    IF key \in DOMAIN kv /\ key[1] = SessionKeyPrefix THEN ended \cup {key[2]} ELSE ended

(***************************************************************************)
(* LoginLimiter and SessionManager over the KvStore.  `fault` says whether *)
(* the KvStore call fails (a connection error or a timeout).               *)
(***************************************************************************)
NoFault == {FALSE}
AnyFault == BOOLEAN

\* A GetLoginFailCount whose failed read counts as a reached limit.
GetLoginFailCountFailClosed(store, username, fault) ==
    LET val == RedisGet(store, LoginFailKey(username)) IN
    IF fault THEN [count |-> MaxLoginFailures, err |-> "redis error"]
    ELSE IF val.kind = RedisNil.kind THEN [count |-> 0, err |-> "nil"]
    ELSE IF ParseInt(val) < 0 THEN [count |-> 0, err |-> "parse error"]
    ELSE [count |-> ParseInt(val), err |-> "nil"]

\* A GetLoginFailCount that reads the key without its prefix.
GetLoginFailCountNoPrefix(store, username, fault) ==
    LET val == RedisGet(store, username) IN
    IF fault THEN [count |-> 0, err |-> "redis error"]
    ELSE IF val.kind = RedisNil.kind THEN [count |-> 0, err |-> "nil"]
    ELSE IF ParseInt(val) < 0 THEN [count |-> 0, err |-> "parse error"]
    ELSE [count |-> ParseInt(val), err |-> "nil"]

\* loginLimiter.GetLoginFailCount: a missing key counts 0
GetLoginFailCount(store, username, fault) ==
    LET val == RedisGet(store, LoginFailKey(username)) IN
    IF fault THEN [count |-> 0, err |-> "redis error"]
    ELSE IF val.kind = RedisNil.kind THEN [count |-> 0, err |-> "nil"]
    ELSE IF ParseInt(val) < 0 THEN [count |-> 0, err |-> "parse error"]
    ELSE [count |-> ParseInt(val), err |-> "nil"]

\* A limit that lets one more attempt through.
LimitReachedOffByOne(failCount) == failCount > MaxLoginFailures

\* if failCount >= MaxLoginFailures
LimitReached(failCount) == failCount >= MaxLoginFailures

\* A ResetLoginFail that leaves the counter in place.
ResetLoginFailKeepsCounter(store, username) == store

\* loginLimiter.ResetLoginFail
ResetLoginFail(store, username) == RedisDel(store, LoginFailKey(username))

\* sessionManager.ValidateSession: GetUint64 of sess:{token}
ValidateSession(store, token, fault) ==
    LET val == RedisGet(store, SessionKey(token)) IN
    IF fault \/ val.kind = RedisNil.kind \/ ParseInt(val) < 0
    THEN [userID |-> 0, err |-> "ErrSessionInvalid"]
    ELSE [userID |-> ParseInt(val), err |-> "nil"]

\* A session stored without its owner.
CreateSessionNoOwner(store, token, userID) ==
    RedisSet(store, SessionKey(token), IntString(0), SessionTTL)

\* sessionManager.CreateSession: sess:{token} = userID, TTL 2 h
CreateSession(store, token, userID) ==
    RedisSet(store, SessionKey(token), IntString(userID), SessionTTL)

\* A DestroySession that ends every session of the token's user.
DestroySessionOfUser(store, token) ==
    LET owner == RedisGet(store, SessionKey(token)) IN
    [k \in {j \in DOMAIN store : ~(j[1] = SessionKeyPrefix /\ store[j].val = owner)} |-> store[k]]

\* A DestroySession that overwrites the session with a tombstone.
DestroySessionTombstone(store, token) ==
    RedisSet(store, SessionKey(token), RedisNil, SessionTTL)

\* A DestroySession that deletes nothing.
DestroySessionKeepsKey(store, token) == store

\* sessionManager.DestroySession
DestroySession(store, token) == RedisDel(store, SessionKey(token))

\* A profile that carries the stored hash along.
ToProfileWithHash(user) ==
    [ID |-> user.ID, Username |-> user.Username, Nickname |-> user.Nickname,
     ProfilePicture |-> user.ProfilePicture, PasswordHash |-> user.PasswordHash]

\* dto.FromModel(user).ToProfile(): the public fields
ToProfile(user) == Profile(user.ID, user.Username, user.Nickname, user.ProfilePicture)

\* A service method returns.
Ret(r, err, token, profile) ==
    [r EXCEPT !.pc = "ret", !.user = NilUser, !.sawNull = FALSE,
              !.out = Result(err, token, profile)]

SetWk(w, r) == wk' = [wk EXCEPT ![w] = r]

(***************************************************************************)
(* userService.Login                                                       *)
(***************************************************************************)
\* A Login that goes to the limiter without validating its DTO.
LoginEnterNoValidation(r, d) == [r EXCEPT !.svc = "Login", !.dto = d, !.pc = "login_limit"]

\* Login's entry: loginDTO.Validate()
LoginEnter(r, d) ==
    IF ValidateLogin(d) # "nil"
    THEN Ret([r EXCEPT !.svc = "Login", !.dto = d], ValidateLogin(d), Empty, NilProfile)
    ELSE [r EXCEPT !.svc = "Login", !.dto = d, !.pc = "login_limit"]

LoginsInFlight == Cardinality({w \in Workers : wk[w].svc = "Login" /\ wk[w].pc # "ret"})

\* The model holds a bounded supply of UUIDs and records a bounded number of
\* calls per window.
LoginInBounds(d) ==
    /\ uuidSeq + LoginsInFlight < MaxTokens
    /\ d.Username \in DOMAIN win => Len(win[d.Username].outs) < MaxAttempts

\* A Login call arrives at the service.
SvcLogin(w, d) ==
    /\ wk[w].pc = "idle"
    /\ LoginInBounds(d)
    /\ SetWk(w, LoginEnter(wk[w], d))
    /\ win' = WindowOnLogin(w, d)
    /\ UNCHANGED <<storeVars, setQ, delQ, issued, ended, nullHitRead, settled>>
    /\ UNCHANGED <<sfVars, logVars>>

\* 2. GetLoginFailCount; an error is logged and the count taken as 0.
LoginCheckLimit(w, F) ==
    /\ wk[w].pc = "login_limit"
    /\ \E fault \in F :
        LET u == wk[w].dto.Username
            got == GetLoginFailCount(kv, u, fault)
            w1 == WindowOnFault(u, fault)
        IN
        IF LimitReached(got.count)
        THEN /\ SetWk(w, Ret(wk[w], "ErrLoginLimitExceeded", Empty, NilProfile))
             /\ win' = IF w1[u].clean
                       THEN [w1 EXCEPT ![u].outs = Append(@, "ErrLoginLimitExceeded")]
                       ELSE w1
        ELSE /\ SetWk(w, [wk[w] EXCEPT !.pc = "login_lookup"])
             /\ win' = w1
    /\ UNCHANGED <<storeVars, setQ, delQ, issued, ended, nullHitRead, settled>>
    /\ UNCHANGED <<sfVars, logVars>>

\* 3. GetByUsername and 4. the bcrypt comparison.  Any lookup error, a
\* missing row and a mismatch all lead to RecordLoginFail.
LoginLookup(w, F) ==
    /\ wk[w].pc = "login_lookup"
    /\ \E fault \in F :
        LET u == wk[w].dto.Username
            user == IF fault THEN NilUser ELSE SelectByUsername(users, u)
            w1 == WindowOnFault(u, fault)
        IN
        /\ win' = IF w1[u].clean THEN [w1 EXCEPT ![u].lookups = @ + 1] ELSE w1
        /\ IF user = NilUser
           THEN SetWk(w, [wk[w] EXCEPT !.pc = "login_incr"])
           ELSE IF ~CompareHashAndPassword(user.PasswordHash, wk[w].dto.Password)
           THEN SetWk(w, [wk[w] EXCEPT !.pc = "login_incr"])
           ELSE SetWk(w, [wk[w] EXCEPT !.pc = "login_session", !.user = user])
    /\ UNCHANGED <<storeVars, setQ, delQ, issued, ended, nullHitRead, settled>>
    /\ UNCHANGED <<sfVars, logVars>>

\* RecordLoginFail: Incr.  On an error Login logs it and still answers
\* ErrInvalidCredentials; a count of 1 goes on to set the TTL.
LoginRecordIncr(w, F) ==
    /\ wk[w].pc = "login_incr"
    /\ \E fault \in F :
        LET u == wk[w].dto.Username
            kv1 == IF fault THEN kv ELSE RedisIncr(kv, LoginFailKey(u))
            w1 == WindowOnFault(u, fault)
        IN
        /\ kv' = kv1
        /\ IF ~fault /\ ParseInt(RedisGet(kv1, LoginFailKey(u))) = 1
           THEN /\ SetWk(w, [wk[w] EXCEPT !.pc = "login_expire"])
                /\ win' = w1
           ELSE /\ SetWk(w, Ret(wk[w], "ErrInvalidCredentials", Empty, NilProfile))
                /\ win' = IF w1[u].clean
                          THEN [w1 EXCEPT ![u].outs = Append(@, "ErrInvalidCredentials")]
                          ELSE w1
    /\ UNCHANGED <<users, uuidSeq, setQ, delQ, issued, ended, nullHitRead, settled>>
    /\ UNCHANGED <<sfVars, logVars>>

\* RecordLoginFail: Expire(key, 15 min) after the first failure; its failure
\* is only logged.
LoginRecordExpire(w, F) ==
    /\ wk[w].pc = "login_expire"
    /\ \E fault \in F :
        LET u == wk[w].dto.Username
            w1 == WindowOnFault(u, fault)
        IN
        /\ kv' = IF fault THEN kv ELSE RedisExpire(kv, LoginFailKey(u), LoginFailTTL)
        /\ SetWk(w, Ret(wk[w], "ErrInvalidCredentials", Empty, NilProfile))
        /\ win' = IF w1[u].clean
                  THEN [w1 EXCEPT ![u].outs = Append(@, "ErrInvalidCredentials")]
                  ELSE w1
    /\ UNCHANGED <<users, uuidSeq, setQ, delQ, issued, ended, nullHitRead, settled>>
    /\ UNCHANGED <<sfVars, logVars>>

\* A Login that clears the failure counter even though CreateSession failed.
LoginCreateSessionResetsOnFailure(w, F) ==
    /\ wk[w].pc = "login_session"
    /\ \E fault \in F :
        LET u == wk[w].dto.Username
            token == Uuid(uuidSeq + 1)
        IN
        /\ uuidSeq' = uuidSeq + 1
        /\ win' = [win EXCEPT ![u] = DirtyWindow]
        /\ IF fault
           THEN /\ kv' = ResetLoginFail(kv, u)
                /\ SetWk(w, Ret(wk[w], "ErrSessionCreateFailed", Empty, NilProfile))
           ELSE /\ kv' = CreateSession(kv, token, wk[w].user.ID)
                /\ SetWk(w, [wk[w] EXCEPT !.pc = "login_reset", !.out.token = token])
    /\ UNCHANGED <<users, setQ, delQ, issued, ended, nullHitRead, settled>>
    /\ UNCHANGED <<sfVars, logVars>>

\* 5. CreateSession(user.ID)
LoginCreateSession(w, F) ==
    /\ wk[w].pc = "login_session"
    /\ \E fault \in F :
        LET u == wk[w].dto.Username
            token == Uuid(uuidSeq + 1)
        IN
        /\ uuidSeq' = uuidSeq + 1
        /\ win' = [win EXCEPT ![u] = DirtyWindow]
        /\ IF fault
           THEN /\ kv' = kv
                /\ SetWk(w, Ret(wk[w], "ErrSessionCreateFailed", Empty, NilProfile))
           ELSE /\ kv' = CreateSession(kv, token, wk[w].user.ID)
                /\ SetWk(w, [wk[w] EXCEPT !.pc = "login_reset", !.out.token = token])
    /\ UNCHANGED <<users, setQ, delQ, issued, ended, nullHitRead, settled>>
    /\ UNCHANGED <<sfVars, logVars>>

\* 6. ResetLoginFail (its failure is only logged) and 7. the result.
LoginResetFail(w, F) ==
    /\ wk[w].pc = "login_reset"
    /\ \E fault \in F :
        /\ kv' = IF fault THEN kv ELSE ResetLoginFail(kv, wk[w].dto.Username)
        /\ SetWk(w, Ret(wk[w], "nil", wk[w].out.token, ToProfile(wk[w].user)))
        /\ issued' = (wk[w].out.token :> wk[w].user.ID) @@ issued
    /\ UNCHANGED <<users, uuidSeq, setQ, delQ, win, ended, nullHitRead, settled>>
    /\ UNCHANGED <<sfVars, logVars>>

(***************************************************************************)
(* userService.Logout                                                      *)
(***************************************************************************)
\* Logout's entry: logoutDTO.Validate()
LogoutEnter(r, d) ==
    IF ValidateToken(d) # "nil"
    THEN Ret([r EXCEPT !.svc = "Logout", !.dto = d], ValidateToken(d), Empty, NilProfile)
    ELSE [r EXCEPT !.svc = "Logout", !.dto = d, !.pc = "logout_destroy"]

\* A Logout call arrives at the service.
SvcLogout(w, d) ==
    /\ wk[w].pc = "idle"
    /\ SetWk(w, LogoutEnter(wk[w], d))
    /\ UNCHANGED <<storeVars, setQ, delQ, win, issued, ended, nullHitRead, settled>>
    /\ UNCHANGED <<sfVars, logVars>>

\* 2. DestroySession
LogoutDestroy(w, F) ==
    /\ wk[w].pc = "logout_destroy"
    /\ \E fault \in F :
        IF fault
        THEN /\ SetWk(w, Ret(wk[w], "LogoutFailed", Empty, NilProfile))
             /\ UNCHANGED <<kv, ended>>
        ELSE /\ kv' = DestroySession(kv, wk[w].dto.Token)
             /\ ended' = EndedOnRemove(SessionKey(wk[w].dto.Token))
             /\ SetWk(w, Ret(wk[w], "nil", Empty, NilProfile))
    /\ UNCHANGED <<users, uuidSeq, setQ, delQ, win, issued, nullHitRead, settled>>
    /\ UNCHANGED <<sfVars, logVars>>

\* The caller of a service method takes its result.
SvcReturn(w) ==
    /\ wk[w].pc = "ret"
    /\ wk[w].rpc.method = "none"
    /\ SetWk(w, Idle)
    /\ ctxDone' = [ctxDone EXCEPT ![w] = FALSE]
    /\ UNCHANGED <<storeVars, setQ, delQ, win, issued, ended, nullHitRead, settled>>
    /\ UNCHANGED <<sfVars, recovered>>

\* The deadline of the context of w's call elapses while the call runs.
CtxDeadline(w) ==
    /\ wk[w].pc \notin {"idle", "ret"}
    /\ ~ctxDone[w]
    /\ ctxDone' = [ctxDone EXCEPT ![w] = TRUE]
    /\ UNCHANGED <<storeVars, wk, setQ, delQ, win, issued, ended, nullHitRead, settled>>
    /\ UNCHANGED <<sfVars, recovered>>

\* A KvStore call that carries the call's context fails once the deadline
\* has elapsed (go-redis returns the context's error).
CtxFaults(w) == IF ctxDone[w] THEN {TRUE} ELSE NoFault

\* A key with a TTL expires.
KvExpire(prefixes) ==
    /\ \E key \in DOMAIN kv :
        /\ key[1] \in prefixes
        /\ kv[key].ttl > 0
        /\ kv' = RedisDel(kv, key)
        /\ win' = WindowOnExpire(key)
        /\ ended' = EndedOnRemove(key)
    /\ UNCHANGED <<users, uuidSeq, wk, setQ, delQ, issued, nullHitRead, settled>>
    /\ UNCHANGED <<sfVars, logVars>>

(***************************************************************************)
(* UserCache over the KvStore.                                             *)
(***************************************************************************)
\* The document SetNullCache stores: CachedUser{Username: NullCacheValue}
NullMarker == MarshalCachedUser(CachedUser(0, NullCacheValue, Empty, Empty))

\* Whether user:{id} holds a document whose username is NullCacheValue.
IsNullMarker(store, id) ==
    LET val == RedisGet(store, UserCacheKey(id)) IN
    val.kind = "json" /\ UnmarshalCachedUser(val).Username = NullCacheValue

\* userCache.GetUser: a missing key and a null marker both give (nil, nil).
GetUser(store, id, fault) ==
    LET val == RedisGet(store, UserCacheKey(id)) IN
    IF fault THEN [user |-> NilCached, err |-> "redis error"]
    ELSE IF val.kind = RedisNil.kind THEN [user |-> NilCached, err |-> "nil"]
    ELSE IF val.kind # "json" THEN [user |-> NilCached, err |-> "unmarshal error"]
    ELSE IF UnmarshalCachedUser(val).Username = NullCacheValue
         THEN [user |-> NilCached, err |-> "nil"]
    ELSE [user |-> UnmarshalCachedUser(val), err |-> "nil"]

\* userCache.SetUser: the public fields of the row, TTL 30 min
SetUser(store, user) ==
    RedisSet(store, UserCacheKey(user.ID),
             MarshalCachedUser(CachedUser(user.ID, user.Username, user.Nickname, user.ProfilePicture)),
             UserCacheTTL)

\* A null marker that lives as long as a real entry.
SetNullCacheLongLived(store, id) ==
    RedisSet(store, UserCacheKey(id), NullMarker, UserCacheTTL)

\* userCache.SetNullCache: the null marker, TTL 5 min
SetNullCache(store, id) ==
    RedisSet(store, UserCacheKey(id), NullMarker, NullCacheTTL)

\* A DeleteUser that leaves the entry in place.
DeleteUserKeepsEntry(store, id) == store

\* userCache.DeleteUser
DeleteUser(store, id) == RedisDel(store, UserCacheKey(id))

\* dto.FromCachedUser
FromCachedUser(cu) == Profile(cu.ID, cu.Username, cu.Nickname, cu.ProfilePicture)

\* A driver that reports one affected row whatever the statement did.
RowsAffectedAlwaysOne(tbl, id, column, value) == 1

\* UPDATE users SET column = value WHERE id = ?  and its RowsAffected: the
\* driver counts the rows the statement changed.
RowsAffected(tbl, id, column, value) ==
    IF id \in DOMAIN tbl /\ tbl[id][column] # value THEN 1 ELSE 0

UpdateColumn(tbl, id, column, value) ==
    IF id \in DOMAIN tbl THEN [tbl EXCEPT ![id][column] = value] ELSE tbl

(***************************************************************************)
(* What the properties need to know about updates.                         *)
(***************************************************************************)
\* The nickname update of an id: the nickname written, whether the
\* UpdateNickname call has returned success, whether its delayed second
\* delete has run, and whether a further update of the id has been issued.
NoUpdate == [n |-> Empty, returned |-> FALSE, fired |-> FALSE, more |-> FALSE]

\* An update call for d.UserID is issued.
SettledOnUpdate(d) ==
    IF d.UserID \in DOMAIN settled /\ settled[d.UserID].n # Empty
    THEN [settled EXCEPT ![d.UserID].more = TRUE]
    ELSE settled

UpdateSettled(id) == settled[id].returned /\ settled[id].fired

SettledIds == {id \in DOMAIN settled : UpdateSettled(id)}

\* Goroutines and timers the model lets be pending at once.
MaxPending == 2

(***************************************************************************)
(* userService.GetProfile and userRepository.GetByID                       *)
(***************************************************************************)
\* GetProfile's entry: validateDTO.Validate()
GetProfileEnter(r, d) ==
    IF ValidateToken(d) # "nil"
    THEN Ret([r EXCEPT !.svc = "GetProfile", !.dto = d], ValidateToken(d), Empty, NilProfile)
    ELSE [r EXCEPT !.svc = "GetProfile", !.dto = d, !.pc = "gp_session"]

\* A GetProfile call arrives at the service.
SvcGetProfile(w, d) ==
    /\ wk[w].pc = "idle"
    /\ SetWk(w, [GetProfileEnter(wk[w], d) EXCEPT !.fresh = SettledIds])
    /\ UNCHANGED <<storeVars, setQ, delQ, win, issued, ended, nullHitRead, settled>>
    /\ UNCHANGED <<sfVars, logVars>>

\* 2. ValidateSession; any error is ErrInvalidToken.
GetProfileSession(w, F) ==
    /\ wk[w].pc = "gp_session"
    /\ \E fault \in F :
        LET got == ValidateSession(kv, wk[w].dto.Token, fault) IN
        IF got.err # "nil"
        THEN SetWk(w, Ret(wk[w], "ErrInvalidToken", Empty, NilProfile))
        ELSE SetWk(w, [wk[w] EXCEPT !.pc = "gbi_cache", !.uid = got.userID])
    /\ UNCHANGED <<storeVars, setQ, delQ, win, issued, ended, nullHitRead, settled>>
    /\ UNCHANGED <<sfVars, logVars>>

\* The nickname update of id has returned success (history).
SettledOnReturn(r, err) ==
    IF r.svc = "UpdateNickname" /\ err = "nil" /\ settled[r.uid].n = r.dto.Nickname
    THEN [settled EXCEPT ![r.uid].returned = TRUE]
    ELSE settled

\* The error a caller of GetByID wraps a store error in.
GetByIDFailed(svc) ==
    IF svc = "GetProfile" THEN "GetProfileFailed" ELSE "RequeryFailed"

\* A GetByID that returns the error of its cache lookup.
GetByIDCacheSurfacesError(w, F) ==
    /\ wk[w].pc = "gbi_cache"
    /\ \E fault \in F :
        LET got == GetUser(kv, wk[w].uid, fault) IN
        IF got.err # "nil"
        THEN /\ SetWk(w, Ret(wk[w], GetByIDFailed(wk[w].svc), Empty, NilProfile))
             /\ UNCHANGED settled
        ELSE IF got.user # NilCached
        THEN /\ SetWk(w, Ret(wk[w], "nil", Empty, FromCachedUser(got.user)))
             /\ settled' = SettledOnReturn(wk[w], "nil")
        ELSE /\ SetWk(w, [wk[w] EXCEPT !.pc = "gbi_db",
                                        !.sawNull = IsNullMarker(kv, wk[w].uid)])
             /\ UNCHANGED settled
    /\ UNCHANGED <<storeVars, setQ, delQ, win, issued, ended, nullHitRead>>
    /\ UNCHANGED <<sfVars, logVars>>

\* GetByID 1-2: GetUser; an error is logged and the store is read; a hit
\* is returned.
GetByIDCache(w, F) ==
    /\ wk[w].pc = "gbi_cache"
    /\ \E fault \in F :
        LET got == GetUser(kv, wk[w].uid, fault) IN
        IF got.user # NilCached
        THEN /\ SetWk(w, Ret(wk[w], "nil", Empty, FromCachedUser(got.user)))
             /\ settled' = SettledOnReturn(wk[w], "nil")
        ELSE /\ SetWk(w, [wk[w] EXCEPT !.pc = "gbi_db",
                                        !.sawNull = ~fault /\ IsNullMarker(kv, wk[w].uid)])
             /\ UNCHANGED settled
    /\ UNCHANGED <<storeVars, setQ, delQ, win, issued, ended, nullHitRead>>
    /\ UNCHANGED <<sfVars, logVars>>

\* A GetByID that takes a failed store read for a missing row.
GetByIDStoreErrorAsMissing(w, F) ==
    /\ wk[w].pc = "gbi_db"
    /\ \E fault \in F :
        LET dbUser == SelectProfileByID(users, wk[w].uid) IN
        /\ nullHitRead' = (nullHitRead \/ (wk[w].sawNull /\ IsNullMarker(kv, wk[w].uid)))
        /\ IF fault \/ dbUser = NilUser
           THEN /\ SetWk(w, [wk[w] EXCEPT !.pc = "gbi_null"])
                /\ UNCHANGED <<setQ, settled>>
           ELSE /\ BagCardinality(setQ) < MaxPending
                /\ setQ' = setQ (+) SetToBag({dbUser})
                /\ SetWk(w, Ret(wk[w], "nil", Empty,
                                FromCachedUser(CachedUser(dbUser.ID, dbUser.Username,
                                                          dbUser.Nickname, dbUser.ProfilePicture))))
                /\ settled' = SettledOnReturn(wk[w], "nil")
    /\ UNCHANGED <<storeVars, delQ, win, issued, ended>>
    /\ UNCHANGED <<sfVars, logVars>>

\* GetByID 3-6: the store read.  No row: go on to SetNullCache.  A row: spawn
\* the goroutine that will SetUser it, and return it.
GetByIDStore(w, F) ==
    /\ wk[w].pc = "gbi_db"
    /\ \E fault \in F :
        LET dbUser == SelectProfileByID(users, wk[w].uid) IN
        /\ nullHitRead' = (nullHitRead \/ (wk[w].sawNull /\ IsNullMarker(kv, wk[w].uid)))
        /\ IF fault
           THEN /\ SetWk(w, Ret(wk[w], GetByIDFailed(wk[w].svc), Empty, NilProfile))
                /\ UNCHANGED <<setQ, settled>>
           ELSE IF dbUser = NilUser
           THEN /\ SetWk(w, [wk[w] EXCEPT !.pc = "gbi_null"])
                /\ UNCHANGED <<setQ, settled>>
           ELSE /\ BagCardinality(setQ) < MaxPending
                /\ setQ' = setQ (+) SetToBag({dbUser})
                /\ SetWk(w, Ret(wk[w], "nil", Empty,
                                FromCachedUser(CachedUser(dbUser.ID, dbUser.Username,
                                                          dbUser.Nickname, dbUser.ProfilePicture))))
                /\ settled' = SettledOnReturn(wk[w], "nil")
    /\ UNCHANGED <<storeVars, delQ, win, issued, ended>>
    /\ UNCHANGED <<sfVars, logVars>>

\* GetByID 4: SetNullCache, whose failure is only logged; the caller answers
\* ErrUserNotFound.
GetByIDNull(w, F) ==
    /\ wk[w].pc = "gbi_null"
    /\ \E fault \in F :
        /\ kv' = IF fault THEN kv ELSE SetNullCache(kv, wk[w].uid)
        /\ SetWk(w, Ret(wk[w], "ErrUserNotFound", Empty, NilProfile))
    /\ UNCHANGED <<users, uuidSeq, setQ, delQ, win, issued, ended, nullHitRead, settled>>
    /\ UNCHANGED <<sfVars, logVars>>

\* The goroutine GetByID spawned runs SetUser with the row it was given.
AsyncSetUser(F) ==
    /\ \E dbUser \in BagToSet(setQ), fault \in F :
        /\ setQ' = setQ (-) SetToBag({dbUser})
        /\ kv' = IF fault THEN kv ELSE SetUser(kv, dbUser)
    /\ UNCHANGED <<users, uuidSeq, wk, delQ, win, issued, ended, nullHitRead, settled>>
    /\ UNCHANGED <<sfVars, logVars>>

(***************************************************************************)
(* userCache.GetOrLoad with the repository's getByIDFromDB as loadFunc     *)
(***************************************************************************)
\* A caller invokes GetOrLoad(ctx, userID, loadFunc).
GetOrLoadCall(w, id) ==
    /\ wk[w].pc = "idle"
    /\ SetWk(w, [wk[w] EXCEPT !.svc = "GetOrLoad", !.uid = id, !.pc = "gol_cache"])
    /\ UNCHANGED <<storeVars, setQ, delQ, win, issued, ended, nullHitRead, settled>>
    /\ UNCHANGED <<sfVars, logVars>>

\* 1-2: GetUser.  An error is returned to the caller; a hit is returned.
GetOrLoadCache(w, F) ==
    /\ wk[w].pc = "gol_cache"
    /\ \E fault \in F :
        LET got == GetUser(kv, wk[w].uid, fault) IN
        IF got.err # "nil"
        THEN SetWk(w, Ret(wk[w], got.err, Empty, NilProfile))
        ELSE IF got.user # NilCached
        THEN SetWk(w, Ret(wk[w], "nil", Empty, FromCachedUser(got.user)))
        ELSE SetWk(w, [wk[w] EXCEPT !.pc = "gol_load"])
    /\ UNCHANGED <<storeVars, setQ, delQ, win, issued, ended, nullHitRead, settled>>
    /\ UNCHANGED <<sfVars, logVars>>

\* 3: loadFunc(userID).  An error is returned; no row goes on to SetNullCache,
\* a row to SetUser.
GetOrLoadLoad(w, F) ==
    /\ wk[w].pc = "gol_load"
    /\ \E fault \in F :
        IF fault
        THEN SetWk(w, Ret(wk[w], "LoadFailed", Empty, NilProfile))
        ELSE IF wk[w].uid \notin DOMAIN users
        THEN SetWk(w, [wk[w] EXCEPT !.pc = "gol_null"])
        ELSE SetWk(w, [wk[w] EXCEPT !.pc = "gol_set", !.user = users[wk[w].uid]])
    /\ UNCHANGED <<storeVars, setQ, delQ, win, issued, ended, nullHitRead, settled>>
    /\ UNCHANGED <<sfVars, logVars>>

\* 4: SetNullCache, whose failure is only logged; (nil, nil) is returned.
GetOrLoadNull(w, F) ==
    /\ wk[w].pc = "gol_null"
    /\ \E fault \in F :
        /\ kv' = IF fault THEN kv ELSE SetNullCache(kv, wk[w].uid)
        /\ SetWk(w, Ret(wk[w], "nil", Empty, NilProfile))
    /\ UNCHANGED <<users, uuidSeq, setQ, delQ, win, issued, ended, nullHitRead, settled>>
    /\ UNCHANGED <<sfVars, logVars>>

\* 5: SetUser, whose failure is only logged; the loaded user is returned.
GetOrLoadSet(w, F) ==
    /\ wk[w].pc = "gol_set"
    /\ \E fault \in F :
        /\ kv' = IF fault THEN kv ELSE SetUser(kv, wk[w].user)
        /\ SetWk(w, Ret(wk[w], "nil", Empty, ToProfile(wk[w].user)))
    /\ UNCHANGED <<users, uuidSeq, setQ, delQ, win, issued, ended, nullHitRead, settled>>
    /\ UNCHANGED <<sfVars, logVars>>

(***************************************************************************)
(* UpdateNickname and UpdateProfilePicture (service and repository)        *)
(***************************************************************************)
\* The column an update method writes and the value it gets.
UpdateColumnOf(svc) == IF svc = "UpdateNickname" THEN "Nickname" ELSE "ProfilePicture"
UpdateValueOf(svc, d) == IF svc = "UpdateNickname" THEN d.Nickname ELSE d.ProfilePicture
ValidateUpdate(svc, d) ==
    IF svc = "UpdateNickname" THEN ValidateUpdateNickname(d) ELSE ValidateUpdateProfilePicture(d)
UpdateFailed(svc) ==
    IF svc = "UpdateNickname" THEN "UpdateNicknameFailed" ELSE "UpdateProfilePictureFailed"

\* An update that goes to the UPDATE without the first delete.
UpdateEnterSkipsDelete(r, svc, d) ==
    IF ValidateUpdate(svc, d) # "nil"
    THEN Ret([r EXCEPT !.svc = svc, !.dto = d], ValidateUpdate(svc, d), Empty, NilProfile)
    ELSE [r EXCEPT !.svc = svc, !.dto = d, !.uid = d.UserID, !.pc = "upd_db"]

\* The entry of an update method: updateDTO.Validate()
UpdateEnter(r, svc, d) ==
    IF ValidateUpdate(svc, d) # "nil"
    THEN Ret([r EXCEPT !.svc = svc, !.dto = d], ValidateUpdate(svc, d), Empty, NilProfile)
    ELSE [r EXCEPT !.svc = svc, !.dto = d, !.uid = d.UserID, !.pc = "upd_del"]

\* An UpdateNickname or UpdateProfilePicture call arrives at the service.
SvcUpdate(w, svc, d) ==
    /\ wk[w].pc = "idle"
    /\ SetWk(w, UpdateEnter(wk[w], svc, d))
    /\ settled' = SettledOnUpdate(d)
    /\ UNCHANGED <<storeVars, setQ, delQ, win, issued, ended, nullHitRead>>
    /\ UNCHANGED <<sfVars, logVars>>

\* A first DeleteUser whose failure fails the update.
UpdateDeleteSurfacesError(w, F) ==
    /\ wk[w].pc = "upd_del"
    /\ \E fault \in F :
        IF fault
        THEN /\ kv' = kv
             /\ SetWk(w, Ret(wk[w], UpdateFailed(wk[w].svc), Empty, NilProfile))
        ELSE /\ kv' = DeleteUser(kv, wk[w].uid)
             /\ SetWk(w, [wk[w] EXCEPT !.pc = "upd_db"])
    /\ UNCHANGED <<users, uuidSeq, setQ, delQ, win, issued, ended, nullHitRead, settled>>
    /\ UNCHANGED <<sfVars, logVars>>

\* Repository 1: the first DeleteUser; its failure is only logged.
UpdateDelete(w, F) ==
    /\ wk[w].pc = "upd_del"
    /\ \E fault \in F :
        /\ kv' = IF fault THEN kv ELSE DeleteUser(kv, wk[w].uid)
        /\ SetWk(w, [wk[w] EXCEPT !.pc = "upd_db"])
    /\ UNCHANGED <<users, uuidSeq, setQ, delQ, win, issued, ended, nullHitRead, settled>>
    /\ UNCHANGED <<sfVars, logVars>>

\* Repository 2: the UPDATE.  An error and zero affected rows fail the call;
\* otherwise the delayed second delete is armed and the service reads the
\* user back with GetByID.
UpdateStore(w, F) ==
    /\ wk[w].pc = "upd_db"
    /\ \E fault \in F :
        LET svc == wk[w].svc
            id == wk[w].uid
            value == UpdateValueOf(svc, wk[w].dto)
        IN
        IF fault \/ RowsAffected(users, id, UpdateColumnOf(svc), value) = 0
        THEN /\ SetWk(w, Ret(wk[w], UpdateFailed(svc), Empty, NilProfile))
             /\ UNCHANGED <<users, delQ, settled>>
        ELSE /\ BagCardinality(delQ) < MaxPending
             /\ users' = UpdateColumn(users, id, UpdateColumnOf(svc), value)
             /\ delQ' = delQ (+) SetToBag({[id |-> id, svc |-> svc]})
             /\ settled' = IF svc = "UpdateNickname"
                           THEN [settled EXCEPT ![id] = [NoUpdate EXCEPT !.n = value]]
                           ELSE settled
             /\ SetWk(w, [wk[w] EXCEPT !.pc = "gbi_cache"])
    /\ UNCHANGED <<kv, uuidSeq, setQ, win, issued, ended, nullHitRead>>
    /\ UNCHANGED <<sfVars, logVars>>

\* The timer armed by an update fires: DeleteUser, whose failure is only
\* logged.
DelayedDelete(F) ==
    /\ \E t \in BagToSet(delQ), fault \in F :
        /\ delQ' = delQ (-) SetToBag({t})
        /\ kv' = IF fault THEN kv ELSE DeleteUser(kv, t.id)
        /\ settled' = IF t.svc = "UpdateNickname"
                      THEN [settled EXCEPT ![t.id].fired = TRUE]
                      ELSE settled
    /\ UNCHANGED <<users, uuidSeq, wk, setQ, win, issued, ended, nullHitRead>>
    /\ UNCHANGED <<sfVars, logVars>>

(***************************************************************************)
(* The gRPC server: ChainUnaryInterceptor(Recovery, Logging, Auth,         *)
(* Metrics) around the UserServiceHandler.                                 *)
(***************************************************************************)
MethodLogin == "/user.UserService/Login"
MethodLogout == "/user.UserService/Logout"
MethodGetProfile == "/user.UserService/GetProfile"
MethodUpdateNickname == "/user.UserService/UpdateNickname"
MethodUpdateProfilePicture == "/user.UserService/UpdateProfilePicture"

UpdateMethods == {MethodUpdateNickname, MethodUpdateProfilePicture}

\* The service method an update RPC ends in.
UpdateSvcOf(method) ==
    IF method = MethodUpdateNickname THEN "UpdateNickname" ELSE "UpdateProfilePicture"

\* Business codes of the handler.
CodeSuccess == 0
CodeInvalidParams == 40001
CodeInvalidCredential == 40002
CodeUnauthorized == 40003
CodeUserNotFound == 40004
CodeTooManyRequests == 42901
CodeInternalError == 50001

ValidationErrors ==
    {"ErrUsernameEmpty", "ErrUsernameInvalid", "ErrPasswordEmpty", "ErrPasswordTooShort",
     "ErrPasswordTooLong", "ErrNicknameEmpty", "ErrNicknameTooLong", "ErrTokenEmpty",
     "ErrPictureURLEmpty", "ErrUserIDInvalid"}

\* A table without the case of a missing user.
mapServiceErrorNoNotFound(err) ==
    IF err \in ValidationErrors THEN CodeInvalidParams
    ELSE IF err = "ErrInvalidCredentials" THEN CodeInvalidCredential
    ELSE IF err = "ErrLoginLimitExceeded" THEN CodeTooManyRequests
    ELSE IF err = "ErrInvalidToken" THEN CodeUnauthorized
    ELSE CodeInternalError

\* mapServiceError
mapServiceError(err) ==
    IF err \in ValidationErrors THEN CodeInvalidParams
    ELSE IF err = "ErrInvalidCredentials" THEN CodeInvalidCredential
    ELSE IF err = "ErrLoginLimitExceeded" THEN CodeTooManyRequests
    ELSE IF err = "ErrInvalidToken" THEN CodeUnauthorized
    ELSE IF err = "ErrUserNotFound" THEN CodeUserNotFound
    ELSE CodeInternalError

\* An empty allowlist.
AuthPublicNone(method) == FALSE

\* An allowlist that lets every method through.
AuthPublicAll(method) == TRUE

\* AuthInterceptor's publicMethods
AuthPublic(method) == method = MethodLogin

\* A chain registered without RecoveryInterceptor.
OuterLayersNoRecovery == <<"Logging">>

\* grpc.ChainUnaryInterceptor(Recovery, Logging, Auth, Metrics): the
\* interceptors a request passes before AuthInterceptor, outermost first.
OuterLayers == <<"Recovery", "Logging">>

\* The request reaches the server: RecoveryInterceptor and LoggingInterceptor
\* call on down the chain.
RpcRecv(w, method, md, req) ==
    /\ wk[w].pc = "idle"
    /\ method = MethodLogin => LoginInBounds(req)
    /\ SetWk(w, [wk[w] EXCEPT !.pc = "rpc_auth",
                              !.rpc = [Rpc(method, md, req) EXCEPT !.layers = OuterLayers]])
    /\ UNCHANGED <<storeVars, setQ, delQ, win, issued, ended, nullHitRead, settled>>
    /\ UNCHANGED <<sfVars, logVars>>

\* The response of a request an interceptor ends with a gRPC status.
Reject(r, status) == [r EXCEPT !.pc = "rpc_done", !.rpc.status = status]

\* AuthInterceptor: a public method goes on; otherwise the first
\* "authorization" value must be a live session, whose user id goes into the
\* context.
RpcAuth(w, F) ==
    /\ wk[w].pc = "rpc_auth"
    /\ \E fault \in F :
        LET r == [wk[w] EXCEPT !.rpc.layers = Append(@, "Auth")]
            tokens == r.rpc.md.authorization
        IN
        IF AuthPublic(r.rpc.method)
        THEN SetWk(w, [r EXCEPT !.pc = "rpc_metrics"])
        ELSE IF ~r.rpc.md.ok THEN SetWk(w, Reject(r, "Unauthenticated"))
        ELSE IF Len(tokens) = 0 THEN SetWk(w, Reject(r, "Unauthenticated"))
        ELSE IF tokens[1] = Empty THEN SetWk(w, Reject(r, "Unauthenticated"))
        ELSE IF ValidateSession(kv, tokens[1], fault).err # "nil"
             THEN SetWk(w, Reject(r, "Unauthenticated"))
        ELSE SetWk(w, [r EXCEPT !.pc = "rpc_metrics",
                                !.rpc.ctxUserID = ValidateSession(kv, tokens[1], fault).userID])
    /\ UNCHANGED <<storeVars, setQ, delQ, win, issued, ended, nullHitRead, settled>>
    /\ UNCHANGED <<sfVars, logVars>>

\* The first service call of a handler: Login, Logout and GetProfile pass the
\* request on; the update handlers first call GetProfile with the request's
\* token to learn the user id.
HandlerEnter(r) ==
    LET req == r.rpc.req IN
    IF r.rpc.method = MethodLogin
    THEN LoginEnter(r, Dto(Empty, req.Username, req.Password, 0, Empty, Empty))
    ELSE IF r.rpc.method = MethodLogout
    THEN LogoutEnter(r, Dto(req.Token, Empty, Empty, 0, Empty, Empty))
    ELSE [GetProfileEnter(r, Dto(req.Token, Empty, Empty, 0, Empty, Empty))
            EXCEPT !.fresh = SettledIds]

\* MetricsInterceptor calls the handler, which makes its first service call.
RpcHandle(w) ==
    /\ wk[w].pc = "rpc_metrics"
    /\ SetWk(w, HandlerEnter([wk[w] EXCEPT !.rpc.layers = @ \o <<"Metrics", "Handler">>]))
    /\ win' = IF wk[w].rpc.method = MethodLogin
              THEN WindowOnLogin(w, wk[w].rpc.req)
              ELSE win
    /\ UNCHANGED <<storeVars, setQ, delQ, issued, ended, nullHitRead, settled>>
    /\ UNCHANGED <<sfVars, logVars>>

\* A handler that answers a service error with toGRPCError's status.
RespondGRPCError(r) ==
    [r EXCEPT !.pc = "rpc_done",
              !.rpc.status = IF r.out.err = "nil" THEN "OK"
                             ELSE IF r.out.err = "ErrInvalidToken" THEN "Unauthenticated"
                             ELSE IF r.out.err = "ErrUserNotFound" THEN "NotFound"
                             ELSE IF r.out.err = "ErrLoginLimitExceeded" THEN "ResourceExhausted"
                             ELSE "Internal",
              !.rpc.code = IF r.out.err = "nil" THEN CodeSuccess ELSE r.rpc.code]

\* The handler's response to a service result: the business code, with gRPC
\* status OK.
Respond(r) ==
    [r EXCEPT !.pc = "rpc_done", !.rpc.status = "OK",
              !.rpc.code = IF r.out.err = "nil" THEN CodeSuccess ELSE mapServiceError(r.out.err)]

\* A service call returns to the handler.  An update handler whose GetProfile
\* succeeded goes on to the update with the profile's id; every other result
\* is answered.
RpcHandlerReturn(w) ==
    /\ wk[w].pc = "ret"
    /\ wk[w].rpc.method # "none"
    /\ LET r == wk[w]
           d == Dto(Empty, Empty, Empty, r.out.profile.ID,
                    r.rpc.req.Nickname, r.rpc.req.ProfilePicture)
       IN
       IF r.rpc.method \in UpdateMethods /\ r.svc = "GetProfile" /\ r.out.err = "nil"
       THEN /\ SetWk(w, UpdateEnter(r, UpdateSvcOf(r.rpc.method), d))
            /\ settled' = SettledOnUpdate(d)
       ELSE /\ SetWk(w, Respond(r))
            /\ UNCHANGED settled
    /\ UNCHANGED <<storeVars, setQ, delQ, win, issued, ended, nullHitRead>>
    /\ UNCHANGED <<sfVars, logVars>>

\* The layer a request at position pc is executing in.
LayerAt(pc) ==
    IF pc = "rpc_auth" THEN "Auth" ELSE IF pc = "rpc_metrics" THEN "Metrics" ELSE "Handler"

\* The layers entered by a request at position pc.
LayersAt(r) ==
    IF r.pc \in {"rpc_auth", "rpc_metrics"} THEN Append(r.rpc.layers, LayerAt(r.pc))
    ELSE r.rpc.layers

\* Code running for the request panics (in Auth, in Metrics, or in the handler
\* and what it calls).  The panic unwinds the goroutine's stack: the deferred
\* recover() of RecoveryInterceptor, when that interceptor is on the stack,
\* turns it into status.Error(codes.Internal, ...) and the locals of the
\* unwound frames are gone; a panic nothing recovers ends the process.
RpcPanic(w) ==
    /\ wk[w].rpc.method # "none"
    /\ wk[w].pc \notin {"idle", "rpc_done", "crashed"}
    /\ LET r == [wk[w] EXCEPT !.rpc.layers = LayersAt(wk[w])] IN
        IF \E i \in DOMAIN r.rpc.layers : r.rpc.layers[i] = "Recovery"
        THEN /\ SetWk(w, Reject([Idle EXCEPT !.rpc = r.rpc], "Internal"))
             /\ recovered' = TRUE
        ELSE /\ SetWk(w, [r EXCEPT !.pc = "crashed"])
             /\ UNCHANGED recovered
    /\ UNCHANGED <<storeVars, setQ, delQ, win, issued, ended, nullHitRead, settled>>
    /\ UNCHANGED <<sfVars, ctxDone>>

\* The response goes back up through Metrics, Logging and Recovery to the
\* client.
RpcRespond(w) ==
    /\ wk[w].pc = "rpc_done"
    /\ SetWk(w, Idle)
    /\ UNCHANGED <<storeVars, setQ, delQ, win, issued, ended, nullHitRead, settled>>
    /\ UNCHANGED <<sfVars, logVars>>


(***************************************************************************)
(* Specifications.                                                         *)
(***************************************************************************)
NoKeys == [k \in {} |-> 0]

ServiceInit(kv0) ==
    /\ kv = kv0
    /\ users = UsersInit
    /\ uuidSeq = 0
    /\ wk = [w \in Workers |-> Idle]
    /\ setQ = EmptyBag
    /\ delQ = EmptyBag
    /\ win = [u \in {alice, ghost} |-> DirtyWindow]
    /\ issued = NoKeys
    /\ ended = {}
    /\ nullHitRead = FALSE
    /\ settled = [id \in {AliceId, BobId, GhostId} |-> NoUpdate]
    /\ recovered = FALSE
    /\ ctxDone = [w \in Workers |-> FALSE]

\* The generator under concurrent NextID callers and an arbitrary clock.
SnowInit == SnowflakeInit /\ ServiceInit(NoKeys)

SnowNext == \E c \in Callers : NextID(c)

SpecSnow == SnowInit /\ [][SnowNext]_vars

\* One caller of a generator built by NewSnowflake(m) for the least, the
\* default and the greatest machine id.
MachineIDs == {0, defaultMachineID, maxMachineID}

OneCaller == {"c1"}

ParseInit == (\E m \in MachineIDs : SnowflakeInitWith(m)) /\ ServiceInit(NoKeys)

ParseNext == \E c \in OneCaller : NextID(c)

SpecParse == ParseInit /\ [][ParseNext]_vars

\* One caller of the default generator around a sequence wrap-around.  The
\* generator starts after 4096 - WaitWindow ids of the epoch millisecond; new
\* calls arrive while the sequence is within WaitWindow of the wrap-around.
\* The caller's goroutine keeps running: the scheduler runs it, and
\* waitNextMillis reads the clock again every 100 microseconds while time
\* goes on, so a step of the call that is possible (leaving the wait needs a
\* later reading to exist) is eventually taken.
WaitWindow == 3

WaitInit ==
    /\ machineID = defaultMachineID
    /\ timestamp = epoch
    /\ sequence = maxSequence - WaitWindow
    /\ mu = NoCaller
    /\ sfPc = [c \in Callers |-> "idle"]
    /\ sfNow = [c \in Callers |-> 0]
    /\ lastCall = [err |-> "nil", now |-> epoch]
    /\ lastId = AssembleID(0, defaultMachineID, maxSequence - WaitWindow)
    /\ maxPrev = AssembleID(0, defaultMachineID, maxSequence - WaitWindow - 1)
    /\ sawRewind = FALSE
    /\ ServiceInit(NoKeys)

WaitCall(c) ==
    /\ sequence >= maxSequence - WaitWindow \/ sequence < WaitWindow
    /\ SfCall(c)

WaitSteps(c) == SfLock(c) \/ SfAdvance(c) \/ SfWaitNextMillis(c) \/ SfAssemble(c)

WaitNext ==
    \E c \in OneCaller :
        \/ WaitCall(c)
        \/ SfLock(c)
        \/ SfAdvance(c)
        \/ SfWaitNextMillis(c)
        \/ SfAssemble(c)

SpecWait == WaitInit /\ [][WaitNext]_vars /\ \A c \in OneCaller : WF_vars(WaitSteps(c))

\* Login and Logout calls of concurrent clients; the KvStore and the store
\* answer every call; failure counters and sessions may expire.
LoginInputs ==
    {Dto(Empty, u, p, 0, Empty, Empty) : u \in {alice, ghost}, p \in {TestPassword, WrongPass}}
    \cup {Dto(Empty, <<"a","b">>, TestPassword, 0, Empty, Empty),
          Dto(Empty, alice, <<"1","2","3">>, 0, Empty, Empty)}

LogoutInputs ==
    {Dto(t, Empty, Empty, 0, Empty, Empty) : t \in {Uuid(n) : n \in 1..MaxTokens} \cup {Empty}}

LoginInit == SnowflakeInit /\ ServiceInit(NoKeys)

\* The steps of Login and Logout calls in progress.
LoginSteps(w, F) ==
    \/ LoginCheckLimit(w, F)
    \/ LoginLookup(w, F)
    \/ LoginRecordIncr(w, F)
    \/ LoginRecordExpire(w, F)
    \/ LoginCreateSession(w, F)
    \/ LoginResetFail(w, F)
    \/ LogoutDestroy(w, F)
    \/ SvcReturn(w)

LoginNext ==
    \/ \E w \in OneWorker :
        \/ \E d \in LoginInputs : SvcLogin(w, d)
        \/ \E d \in LogoutInputs : SvcLogout(w, d)
        \/ LoginSteps(w, NoFault)
    \/ KvExpire({LoginFailKeyPrefix, SessionKeyPrefix})

\* One client's calls, one after another.
SpecLogin == LoginInit /\ [][LoginNext]_vars

\* alice's Login calls and Logout calls of two concurrent clients.
AliceLoginInputs ==
    {Dto(Empty, alice, p, 0, Empty, Empty) : p \in {TestPassword, WrongPass}}

LoginConcNext ==
    \/ \E w \in Workers :
        \/ \E d \in AliceLoginInputs : SvcLogin(w, d)
        \/ \E d \in LogoutInputs : SvcLogout(w, d)
        \/ LoginSteps(w, NoFault)
    \/ KvExpire({LoginFailKeyPrefix, SessionKeyPrefix})

SpecLoginConc == LoginInit /\ [][LoginConcNext]_vars

\* Sessions that exist when the model starts: alice's, bob's, and one of a
\* user whose row has since left the table.  BadToken is no session.
AliceToken == Uuid(101)
BobToken == Uuid(102)
GhostToken == Uuid(103)
BadToken == Uuid(199)

SessionsInit(owners) ==
    [key \in {SessionKey(t) : t \in DOMAIN owners} |->
        [val |-> IntString(owners[key[2]]), ttl |-> SessionTTL]]

\* The calls of the concurrent clients: reads with alice's session, with the
\* session of the missing user and with no session; updates of alice's
\* nickname, of the missing user's and an invalid one.
CacheGetProfileInputs ==
    {Dto(t, Empty, Empty, 0, Empty, Empty) : t \in {AliceToken, GhostToken, BadToken}}

CacheUpdateInputs ==
    {Dto(Empty, Empty, Empty, id, NickAlicia, Empty) : id \in {AliceId, GhostId, 0}}

\* The steps of GetProfile and update calls in progress.
CacheSteps(w, F) ==
    \/ GetProfileSession(w, F)
    \/ GetByIDCache(w, F)
    \/ GetByIDStore(w, F)
    \/ GetByIDNull(w, F)
    \/ UpdateDelete(w, F)
    \/ UpdateStore(w, F)
    \/ SvcReturn(w)

CacheInit ==
    /\ SnowflakeInit
    /\ ServiceInit(SessionsInit((AliceToken :> AliceId) @@ (GhostToken :> GhostId)))

CacheNext ==
    \/ \E w \in Workers :
        \/ \E d \in CacheGetProfileInputs : SvcGetProfile(w, d)
        \/ \E d \in CacheUpdateInputs : SvcUpdate(w, "UpdateNickname", d)
        \/ CacheSteps(w, NoFault)
    \/ AsyncSetUser(NoFault)
    \/ DelayedDelete(NoFault)
    \/ KvExpire({UserCacheKeyPrefix})

\* GetProfile and update calls of two concurrent clients; every KvStore and
\* store call is answered; cache entries may expire.
SpecCache == CacheInit /\ [][CacheNext]_vars

\* One client that updates alice's nickname and picture, one call after
\* another, while a second client reads her profile; every KvStore and store
\* call is answered.  No two updates overlap.
WriterInputs(svc) ==
    IF svc = "UpdateNickname"
    THEN {Dto(Empty, Empty, Empty, AliceId, NickAlicia, Empty)}
    ELSE {Dto(Empty, Empty, Empty, AliceId, Empty, Pic1)}

WriterNext ==
    \/ \E svc \in {"UpdateNickname", "UpdateProfilePicture"} :
            \E d \in WriterInputs(svc) : SvcUpdate("w1", svc, d)
    \/ SvcGetProfile("w2", Dto(AliceToken, Empty, Empty, 0, Empty, Empty))
    \/ \E w \in Workers :
        \/ GetProfileSession(w, NoFault)
        \/ GetByIDCache(w, NoFault)
        \/ GetByIDStore(w, NoFault)
        \/ UpdateDelete(w, NoFault)
        \/ UpdateStore(w, NoFault)
        \/ SvcReturn(w)
    \/ AsyncSetUser(NoFault)
    \/ DelayedDelete(NoFault)

SpecWriter == CacheInit /\ [][WriterNext]_vars

\* What one client sends: the metadata, and per method the request message.
RpcMetadata ==
    {NoMetadata, Metadata(<<>>), Metadata(<<Empty>>), Metadata(<<AliceToken>>),
     Metadata(<<BobToken>>), Metadata(<<BadToken>>), Metadata(<<AliceToken, BobToken>>)}

RpcRequests(method) ==
    IF method = MethodLogin
    THEN {Dto(Empty, alice, TestPassword, 0, Empty, Empty),
          Dto(Empty, <<"a","b">>, TestPassword, 0, Empty, Empty)}
    ELSE IF method = MethodLogout
    THEN {Dto(t, Empty, Empty, 0, Empty, Empty) : t \in {AliceToken, Empty}}
    ELSE IF method = MethodGetProfile
    THEN {Dto(t, Empty, Empty, 0, Empty, Empty) : t \in {AliceToken, BobToken, BadToken, Empty}}
    ELSE IF method = MethodUpdateNickname
    THEN {Dto(t, Empty, Empty, 0, n, Empty) : t \in {AliceToken, BobToken}, n \in {NickAlicia, Empty}}
    ELSE {Dto(AliceToken, Empty, Empty, 0, Empty, p) : p \in {Pic1, Empty}}

RpcMethods ==
    {MethodLogin, MethodLogout, MethodGetProfile, MethodUpdateNickname, MethodUpdateProfilePicture}

RpcInit ==
    /\ SnowflakeInit
    /\ ServiceInit(SessionsInit((AliceToken :> AliceId) @@ (BobToken :> BobId)))

RpcNext ==
    \/ \E w \in OneWorker :
        \/ /\ setQ = EmptyBag
           /\ delQ = EmptyBag
           /\ \E method \in RpcMethods, md \in RpcMetadata :
                \E req \in RpcRequests(method) : RpcRecv(w, method, md, req)
        \/ RpcAuth(w, NoFault)
        \/ RpcHandle(w)
        \/ LoginCheckLimit(w, NoFault)
        \/ LoginLookup(w, NoFault)
        \/ LoginCreateSession(w, NoFault)
        \/ LoginResetFail(w, NoFault)
        \/ LogoutDestroy(w, NoFault)
        \/ GetProfileSession(w, NoFault)
        \/ GetByIDCache(w, NoFault)
        \/ GetByIDStore(w, NoFault)
        \/ UpdateDelete(w, NoFault)
        \/ UpdateStore(w, NoFault)
        \/ RpcHandlerReturn(w)
        \/ RpcRespond(w)
    \/ AsyncSetUser(NoFault)
    \/ DelayedDelete(NoFault)

\* One client's RPCs through the interceptor chain, one after another, each
\* sent when the goroutines and timers of the earlier ones are over; every
\* KvStore and store call is answered.
SpecRpc == RpcInit /\ [][RpcNext]_vars

\* One client's RPCs while any KvStore or store call may fail.  Failed
\* limiter calls let the failure counter grow past the limit, so new Login
\* calls stop at MaxFailCount; the client logs in at most MaxFaultTokens times.
MaxFailCount == 6
MaxFaultTokens == 1

FailCount(username) ==
    IF LoginFailKey(username) \in DOMAIN kv
    THEN ParseInt(kv[LoginFailKey(username)].val)
    ELSE 0

FaultMetadata == {NoMetadata, Metadata(<<AliceToken>>)}

FaultRequests(method) ==
    IF method = MethodLogin
    THEN {Dto(Empty, alice, TestPassword, 0, Empty, Empty),
          Dto(Empty, alice, WrongPass, 0, Empty, Empty),
          Dto(Empty, <<"a","b">>, TestPassword, 0, Empty, Empty)}
    ELSE IF method = MethodLogout
    THEN {Dto(AliceToken, Empty, Empty, 0, Empty, Empty)}
    ELSE IF method = MethodGetProfile
    THEN {Dto(t, Empty, Empty, 0, Empty, Empty) : t \in {AliceToken, GhostToken, BadToken}}
    ELSE IF method = MethodUpdateNickname
    THEN {Dto(AliceToken, Empty, Empty, 0, NickAlicia, Empty)}
    ELSE {Dto(AliceToken, Empty, Empty, 0, Empty, p) : p \in {Pic0, Empty}}

FaultInit ==
    /\ SnowflakeInit
    /\ ServiceInit(SessionsInit((AliceToken :> AliceId) @@ (GhostToken :> GhostId)))

FaultRecv(w) ==
    /\ setQ = EmptyBag
    /\ delQ = EmptyBag
    /\ \E method \in RpcMethods, md \in FaultMetadata :
        \E req \in FaultRequests(method) :
            /\ method = MethodLogin =>
                    (FailCount(req.Username) < MaxFailCount /\ uuidSeq < MaxFaultTokens)
            /\ RpcRecv(w, method, md, req)

FaultNext ==
    \/ \E w \in OneWorker :
        \/ FaultRecv(w)
        \/ RpcAuth(w, AnyFault)
        \/ RpcHandle(w)
        \/ LoginCheckLimit(w, AnyFault)
        \/ LoginLookup(w, AnyFault)
        \/ LoginRecordIncr(w, AnyFault)
        \/ LoginRecordExpire(w, AnyFault)
        \/ LoginCreateSession(w, AnyFault)
        \/ LoginResetFail(w, AnyFault)
        \/ LogoutDestroy(w, AnyFault)
        \/ GetProfileSession(w, AnyFault)
        \/ GetByIDCache(w, AnyFault)
        \/ GetByIDStore(w, AnyFault)
        \/ GetByIDNull(w, AnyFault)
        \/ UpdateDelete(w, AnyFault)
        \/ UpdateStore(w, AnyFault)
        \/ RpcHandlerReturn(w)
        \/ RpcRespond(w)
    \/ AsyncSetUser(AnyFault)
    \/ DelayedDelete(AnyFault)

SpecFault == FaultInit /\ [][FaultNext]_vars

\* One client's RPCs, every KvStore and store call answered, while the code
\* serving a request may panic at any point below RecoveryInterceptor.
PanicRequests(method) ==
    IF method = MethodLogin
    THEN {Dto(Empty, alice, TestPassword, 0, Empty, Empty)}
    ELSE IF method = MethodUpdateNickname
    THEN {Dto(AliceToken, Empty, Empty, 0, NickAlicia, Empty)}
    ELSE IF method = MethodUpdateProfilePicture
    THEN {Dto(AliceToken, Empty, Empty, 0, Empty, Pic1)}
    ELSE {Dto(AliceToken, Empty, Empty, 0, Empty, Empty)}

PanicNext ==
    \/ \E w \in OneWorker :
        \/ /\ setQ = EmptyBag
           /\ delQ = EmptyBag
           /\ \E method \in RpcMethods, md \in FaultMetadata :
                \E req \in PanicRequests(method) : RpcRecv(w, method, md, req)
        \/ RpcAuth(w, NoFault)
        \/ RpcHandle(w)
        \/ LoginCheckLimit(w, NoFault)
        \/ LoginLookup(w, NoFault)
        \/ LoginCreateSession(w, NoFault)
        \/ LoginResetFail(w, NoFault)
        \/ LogoutDestroy(w, NoFault)
        \/ GetProfileSession(w, NoFault)
        \/ GetByIDCache(w, NoFault)
        \/ GetByIDStore(w, NoFault)
        \/ UpdateDelete(w, NoFault)
        \/ UpdateStore(w, NoFault)
        \/ RpcHandlerReturn(w)
        \/ RpcPanic(w)
        \/ RpcRespond(w)
    \/ AsyncSetUser(NoFault)
    \/ DelayedDelete(NoFault)

SpecPanic == RpcInit /\ [][PanicNext]_vars

\* One client's updates, one after another, each issued when the timer of the
\* one before has fired: of alice's nickname and picture (a new value and the
\* value the row already has) and of a user without a row.  Any KvStore or
\* store call may fail, which is also what a cancelled caller context does to
\* the calls that carry it.  The runtime fires every armed timer.
TimerInputs(svc) ==
    IF svc = "UpdateNickname"
    THEN {Dto(Empty, Empty, Empty, id, NickAlicia, Empty) : id \in {AliceId, GhostId}}
    ELSE {Dto(Empty, Empty, Empty, AliceId, Empty, p) : p \in {Pic0, Pic1}}

TimerNext ==
    \/ \E w \in OneWorker :
        \/ /\ delQ = EmptyBag
           /\ \E svc \in {"UpdateNickname", "UpdateProfilePicture"} :
                \E d \in TimerInputs(svc) : SvcUpdate(w, svc, d)
        \/ UpdateDelete(w, AnyFault)
        \/ UpdateStore(w, AnyFault)
        \/ GetByIDCache(w, AnyFault)
        \/ GetByIDStore(w, AnyFault)
        \/ SvcReturn(w)
    \/ AsyncSetUser(AnyFault)
    \/ DelayedDelete(AnyFault)

SpecTimer == CacheInit /\ [][TimerNext]_vars /\ WF_vars(DelayedDelete(AnyFault))

\* One client's updates of alice's nickname and picture while the deadline of
\* a call's context may elapse at any point of the call.  The KvStore calls
\* made with that context then fail; db.Exec and db.Get are called without a
\* context, and the goroutine and the timer callback run on contexts of
\* their own.
DeadlineNext ==
    \/ \E w \in OneWorker :
        \/ \E svc \in {"UpdateNickname", "UpdateProfilePicture"} :
                \E d \in WriterInputs(svc) : SvcUpdate(w, svc, d)
        \/ CtxDeadline(w)
        \/ UpdateDelete(w, CtxFaults(w))
        \/ UpdateStore(w, NoFault)
        \/ GetByIDCache(w, CtxFaults(w))
        \/ GetByIDStore(w, NoFault)
        \/ SvcReturn(w)
    \/ AsyncSetUser(NoFault)
    \/ DelayedDelete(NoFault)

SpecDeadline == CacheInit /\ [][DeadlineNext]_vars

\* Concurrent callers of GetOrLoad for a user with a row and one without;
\* any KvStore call and the loader may fail; cache entries may expire.
GetOrLoadNext ==
    \/ \E w \in Workers :
        \/ \E id \in {AliceId, GhostId} : GetOrLoadCall(w, id)
        \/ GetOrLoadCache(w, AnyFault)
        \/ GetOrLoadLoad(w, AnyFault)
        \/ GetOrLoadNull(w, AnyFault)
        \/ GetOrLoadSet(w, AnyFault)
        \/ SvcReturn(w)
    \/ KvExpire({UserCacheKeyPrefix})

SpecGetOrLoad == CacheInit /\ [][GetOrLoadNext]_vars

\* alice's Login calls of two concurrent clients while any KvStore or store
\* call may fail; new calls stop once the failure counter is at MaxFailCount.
LoginFaultNext ==
    \E w \in Workers :
        \/ /\ FailCount(alice) < MaxFailCount
           /\ \E d \in AliceLoginInputs : SvcLogin(w, d)
        \/ LoginCheckLimit(w, AnyFault)
        \/ LoginLookup(w, AnyFault)
        \/ LoginRecordIncr(w, AnyFault)
        \/ LoginRecordExpire(w, AnyFault)
        \/ LoginCreateSession(w, AnyFault)
        \/ LoginResetFail(w, AnyFault)
        \/ SvcReturn(w)

SpecLoginFault == LoginInit /\ [][LoginFaultNext]_vars

\* One client's calls of the five service methods, one after another, each
\* made when the goroutines and timers of the earlier ones are over, with DTOs
\* that pass validation and DTOs that fail each of its checks; every KvStore
\* and store call is answered.
WideRune == [rune |-> "U+4E2D", width |-> 3]
LongNickname == [i \in 1..51 |-> WideRune]

ValidateLoginInputs ==
    {Dto(Empty, u, p, 0, Empty, Empty) :
        u \in {alice}, p \in {TestPassword, WrongPass, Empty, <<"1","2","3">>}}
    \cup {Dto(Empty, u, TestPassword, 0, Empty, Empty) : u \in {Empty, <<"a","b">>, <<"a","-","b">>}}

ValidateTokenInputs == {Dto(t, Empty, Empty, 0, Empty, Empty) : t \in {AliceToken, Empty}}

ValidateUpdateInputs(svc) ==
    IF svc = "UpdateNickname"
    THEN {Dto(Empty, Empty, Empty, id, n, Empty) :
            id \in {AliceId, 0}, n \in {NickAlicia, Empty, LongNickname}}
    ELSE {Dto(Empty, Empty, Empty, AliceId, Empty, p) : p \in {Pic1, Empty}}

ValidateCall(w) ==
    /\ setQ = EmptyBag
    /\ delQ = EmptyBag
    /\ \/ \E d \in ValidateLoginInputs : SvcLogin(w, d)
       \/ \E d \in ValidateTokenInputs : SvcLogout(w, d)
       \/ \E d \in ValidateTokenInputs : SvcGetProfile(w, d)
       \/ \E svc \in {"UpdateNickname", "UpdateProfilePicture"} :
               \E d \in ValidateUpdateInputs(svc) : SvcUpdate(w, svc, d)

ValidateNext ==
    \/ \E w \in OneWorker :
        \/ ValidateCall(w)
        \/ LoginSteps(w, NoFault)
        \/ GetProfileSession(w, NoFault)
        \/ GetByIDCache(w, NoFault)
        \/ GetByIDStore(w, NoFault)
        \/ UpdateDelete(w, NoFault)
        \/ UpdateStore(w, NoFault)
    \/ AsyncSetUser(NoFault)
    \/ DelayedDelete(NoFault)

SpecValidate == CacheInit /\ [][ValidateNext]_vars

\* The error of the Validate method of a service method's DTO.
ValidateOf(svc, d) ==
    IF svc = "Login" THEN ValidateLogin(d)
    ELSE IF svc \in {"Logout", "GetProfile"} THEN ValidateToken(d)
    ELSE ValidateUpdate(svc, d)

(***************************************************************************)
(* Properties.                                                             *)
(***************************************************************************)
\* C1: in a window that starts with no failure counter for a username and
\* consists of sequential Login calls that each fail authentication, with no
\* expiry of the counter, the first five calls answer ErrInvalidCredentials,
\* every later one ErrLoginLimitExceeded, and GetByUsername has been called
\* once per call up to five times and never a sixth time.
C1_SixFailedLogins ==
    \A u \in DOMAIN win :
        win[u].clean =>
            /\ \A i \in 1..Len(win[u].outs) :
                  win[u].outs[i] = IF i <= 5 THEN "ErrInvalidCredentials"
                                   ELSE "ErrLoginLimitExceeded"
            /\ win[u].lookups <= 5
            /\ (\A w \in Workers : ~InLogin(w, u)) =>
                  win[u].lookups = Min(Len(win[u].outs), 5)

\* Both a missing user (ghost) and a wrong password (alice) have gone through
\* six failed calls, the sixth rejected by the limiter after five lookups.
C1_Witness ==
    \A u \in {alice, ghost} :
        /\ win[u].clean
        /\ Len(win[u].outs) = 6
        /\ win[u].outs[6] = "ErrLoginLimitExceeded"
        /\ win[u].lookups = 5

\* C2: a GetProfile call that begins after an UpdateNickname(id, n) call has
\* returned success and that update's delayed second delete has run, and that
\* returns the profile of id while no further update of id has been issued,
\* returns nickname n.
C2_ReadSeesSettledNickname ==
    \A w \in Workers :
        (/\ wk[w].svc = "GetProfile"
         /\ wk[w].pc = "ret"
         /\ wk[w].out.err = "nil"
         /\ wk[w].out.profile.ID \in wk[w].fresh
         /\ ~settled[wk[w].out.profile.ID].more)
            => wk[w].out.profile.Nickname = settled[wk[w].out.profile.ID].n

\* C3: no GetByID whose cache lookup met a null marker reads the store while
\* that marker is still in the cache.
C3_NullMarkerSkipsStore == ~nullHitRead

\* C4: a GetProfile call with a valid token whose user id has no row answers
\* ErrUserNotFound, and when it completes user:{id} holds the null marker with
\* a TTL of at most 5 minutes.
C4_AbsentUserNullMarker ==
    [][\A w \in Workers :
        (/\ wk[w].svc = "GetProfile"
         /\ wk[w].pc \in {"gbi_cache", "gbi_db", "gbi_null"}
         /\ wk[w].uid \notin DOMAIN users
         /\ wk'[w].pc = "ret")
            => /\ wk'[w].out.err = "ErrUserNotFound"
               /\ IsNullMarker(kv', wk[w].uid)
               /\ kv'[UserCacheKey(wk[w].uid)].ttl \in 1..300]_vars

\* A GetProfile call with the missing user's session has answered
\* ErrUserNotFound and the marker is in the cache.
C4_Witness ==
    \E w \in Workers :
        /\ wk[w].svc = "GetProfile"
        /\ wk[w].pc = "ret"
        /\ wk[w].dto.Token = GhostToken
        /\ wk[w].out.err = "ErrUserNotFound"
        /\ IsNullMarker(kv, GhostId)

\* C5: a token returned by a successful Login validates to that user's id in
\* every state until its session key is deleted by Logout or expires.
C5_SessionValidUntilEnded ==
    \A t \in DOMAIN issued :
        t \notin ended =>
            ValidateSession(kv, t, FALSE) = [userID |-> issued[t], err |-> "nil"]

\* One returned token is still live after another one has been destroyed.
C5_Witness ==
    \E t1, t2 \in DOMAIN issued :
        /\ t1 \notin ended
        /\ t2 \in ended
        /\ ValidateSession(kv, t1, FALSE).userID = AliceId

\* C6: for an RPC of a method other than Login, Metrics and the handler run
\* only after Auth, whose ValidateSession of the metadata's token succeeded
\* and whose user id is in the context; any other such RPC ends with status
\* Unauthenticated, having entered Recovery, Logging and Auth only, and none of
\* its steps changes the KvStore, the users table, or the pending goroutines
\* and timers.
C6_AuthBeforeHandler ==
    /\ [](\A w \in Workers :
            LET rpc == wk[w].rpc IN
            rpc.method \notin {"none", MethodLogin} =>
                /\ (\E i \in 1..Len(rpc.layers) : rpc.layers[i] \in {"Metrics", "Handler"})
                      => /\ rpc.layers = <<"Recovery", "Logging", "Auth", "Metrics", "Handler">>
                         /\ rpc.ctxUserID # 0
                         /\ rpc.status # "Unauthenticated"
                /\ rpc.status = "Unauthenticated"
                      => rpc.layers = <<"Recovery", "Logging", "Auth">>)
    /\ [][\A w \in Workers :
            LET rpc == wk[w].rpc IN
            (wk[w].pc = "rpc_auth" /\ wk'[w] # wk[w] /\ rpc.method # MethodLogin) =>
                IF wk'[w].pc = "rpc_metrics"
                THEN /\ rpc.md.ok
                     /\ Len(rpc.md.authorization) > 0
                     /\ ValidateSession(kv, rpc.md.authorization[1], FALSE)
                          = [userID |-> wk'[w].rpc.ctxUserID, err |-> "nil"]
                ELSE /\ wk'[w].rpc.status = "Unauthenticated"
                     /\ wk'[w].pc = "rpc_done"]_vars
    /\ [][\A w \in Workers :
            (/\ wk'[w] # wk[w]
             /\ \/ wk[w].rpc.status = "Unauthenticated"
                \/ /\ wk'[w].rpc.method \notin {"none", MethodLogin}
                   /\ wk'[w].pc \in {"rpc_auth", "rpc_done"}
                   /\ wk'[w].rpc.status \in {"none", "Unauthenticated"})
                => UNCHANGED <<kv, users, uuidSeq, setQ, delQ>>]_vars

\* An update RPC whose token is no session has been rejected by Auth, after an
\* earlier, authenticated one changed a nickname.
C6_Witness ==
    \E w \in Workers :
        /\ wk[w].rpc.method = MethodUpdateNickname
        /\ wk[w].rpc.status = "Unauthenticated"
        /\ wk[w].pc = "rpc_done"
        /\ wk[w].rpc.md = Metadata(<<BadToken>>)
        /\ wk[w].rpc.layers = <<"Recovery", "Logging", "Auth">>
        /\ users[AliceId].Nickname = NickAlicia

\* C7: a step of an UpdateNickname or UpdateProfilePicture RPC that changes
\* the users table changes only the row of the user whose session the
\* metadata's token is, whatever token the request message carries.
C7_UpdateTargetsHeaderUser ==
    [][\A w \in Workers :
        (wk[w].rpc.method \in UpdateMethods /\ wk'[w] # wk[w]) =>
            \A id \in DOMAIN users :
                users'[id] # users[id] => id = wk[w].rpc.ctxUserID]_vars

\* C8: every id NextID returns is greater than every id the instance returned
\* before (whatever the clock does), so no two are equal.
C8_StrictlyIncreasing == lastId # NoId => lastId > maxPrev

\* At least two ids have been returned and no call met a rewound clock.
C8_Witness == maxPrev # NoId /\ lastId # NoId /\ ~sawRewind

\* C9: at most one NextID call is between Lock and Unlock, it is the holder of
\* the mutex, and each id issued exceeds every id issued before it to any
\* caller: no two calls get the same id and a caller's own ids increase.
C9_AtomicNextID ==
    /\ \A c1, c2 \in Callers :
          sfPc[c1] \in {"locked", "wait", "assemble"} /\ sfPc[c2] \in {"locked", "wait", "assemble"}
              => c1 = c2
    /\ \A c \in Callers : sfPc[c] \in {"locked", "wait", "assemble"} => mu = c
    /\ lastId # NoId => (lastId # maxPrev /\ lastId > maxPrev)

\* One caller is building an id while the other waits for the mutex, after
\* ids have been issued.
C9_Witness ==
    \E c1, c2 \in Callers :
        /\ sfPc[c1] = "assemble"
        /\ sfPc[c2] = "lock"
        /\ maxPrev # NoId

\* C10: a NextID call whose clock reading is less than s.timestamp returns
\* the rewind error and no id and leaves timestamp and sequence unchanged, a
\* call with any other reading goes on; the ids issued afterwards still exceed
\* all earlier ones.
C10_ClockRewound ==
    /\ [][\A c \in Callers :
            (sfPc[c] = "locked" /\ sfPc'[c] # "locked") =>
                IF sfPc'[c] = "idle"
                THEN /\ lastCall'.err = "ClockRewound"
                     /\ lastCall'.now < timestamp
                     /\ UNCHANGED <<timestamp, sequence, lastId, maxPrev>>
                ELSE sfNow'[c] >= timestamp]_vars
    /\ [](lastId # NoId => lastId > maxPrev)

\* An id was issued, after a call had failed on a rewound clock.
C10_Witness == sawRewind /\ lastCall.err = "nil" /\ maxPrev # NoId



\* C11: ParseSnowflakeID inverts the assembly of every id NextID returns: it
\* yields the millisecond used, the generator's machine id and the sequence
\* used; the id is non-negative and its three fields do not overlap (the OR
\* of the shifted fields is their sum, each field within its width).
C11_ParseInvertsAssemble ==
    [][\A c \in OneCaller :
        (SfAssemble(c) /\ lastCall'.err = "nil") =>
            /\ ParseSnowflakeID(lastId') =
                   [timestamp |-> sfNow[c], machineID |-> machineID, sequence |-> sequence]
            /\ lastId' >= 0
            /\ lastId' = ShiftLeft(sfNow[c] - epoch, timestampShift)
                         + ShiftLeft(machineID, machineIDShift) + sequence
            /\ machineID \in 0..maxMachineID
            /\ sequence \in 0..maxSequence]_vars

\* An id of the greatest machine id, in a later millisecond than the epoch,
\* with a sequence number above zero.
C11_Witness ==
    /\ lastCall.err = "nil"
    /\ lastId # NoId
    /\ machineID = maxMachineID
    /\ ParseSnowflakeID(lastId).sequence > 0
    /\ ParseSnowflakeID(lastId).timestamp > epoch

\* C12: Recovery is the outermost layer of every request, so a panic in Auth,
\* in Metrics or in the handler is caught: the step of the panic ends the call
\* with transport status Internal and no business code, the process does not
\* end, and the worker is left where it returns the response and takes the
\* next request.
C12_RecoveryCatchesPanic ==
    [][\A w \in OneWorker :
        /\ wk'[w].rpc.method # "none" => wk'[w].rpc.layers[1] = "Recovery"
        /\ wk'[w].pc # "crashed"
        /\ RpcPanic(w) =>
            /\ wk'[w].rpc.status = "Internal"
            /\ wk'[w].rpc.code = NilRpc.code
            /\ wk'[w].pc = "rpc_done"
            /\ LayerAt(wk[w].pc) \in {"Auth", "Metrics", "Handler"}]_vars

\* After a panic was caught, a later request is answered with success.
C12_Witness ==
    /\ recovered
    /\ wk["w1"].pc = "rpc_done"
    /\ wk["w1"].rpc.status = "OK"
    /\ wk["w1"].rpc.code = CodeSuccess

\* C13: once Logout(t) has deleted session t, the session does not exist in
\* any later state: ValidateSession(t) fails, AuthInterceptor rejects a
\* request that presents t, and GetProfile(t) goes from its session lookup
\* straight to the result ErrInvalidToken, with no step at the user cache or
\* the users table and nothing changed.
C13_LoggedOutTokenInvalid ==
    /\ [](\A t \in ended :
            /\ SessionKey(t) \notin DOMAIN kv
            /\ ValidateSession(kv, t, FALSE).err # "nil")
    /\ [][\A w \in OneWorker :
            /\ (wk[w].pc = "gp_session" /\ wk[w].dto.Token \in ended) =>
                    /\ wk'[w].pc = "ret"
                    /\ wk'[w].out.err = "ErrInvalidToken"
                    /\ wk'[w].out.profile = NilProfile
                    /\ UNCHANGED <<kv, users, setQ, delQ>>
            /\ (/\ wk[w].pc = "rpc_auth"
                /\ ~AuthPublic(wk[w].rpc.method)
                /\ wk[w].rpc.md.ok
                /\ Len(wk[w].rpc.md.authorization) > 0
                /\ wk[w].rpc.md.authorization[1] \in ended) =>
                    wk'[w].rpc.status = "Unauthenticated"]_vars

\* A GetProfile RPC for a token an earlier Logout destroyed was answered with
\* the code of an invalid token.
C13_Witness ==
    /\ wk["w1"].rpc.method = MethodGetProfile
    /\ wk["w1"].dto.Token \in ended
    /\ wk["w1"].pc = "rpc_done"
    /\ wk["w1"].rpc.status = "OK"
    /\ wk["w1"].rpc.code = CodeUnauthorized

C15_NoPasswordHashOut ==
    LET hashes == {users[id].PasswordHash : id \in DOMAIN users} IN
    /\ \A key \in DOMAIN kv :
        key[1] = UserCacheKeyPrefix =>
            /\ kv[key].val.kind = "json"
            /\ DOMAIN kv[key].val.obj = {"id", "username", "nickname", "profile_picture"}
            /\ \A f \in {"username", "nickname", "profile_picture"} :
                    kv[key].val.obj[f] \notin hashes
    /\ \A w \in Workers :
        /\ DOMAIN wk[w].out.profile = {"ID", "Username", "Nickname", "ProfilePicture"}
        /\ \A f \in {"Username", "Nickname", "ProfilePicture"} :
                wk[w].out.profile[f] \notin hashes

\* Login has answered with alice's profile, read from the row that holds her
\* hash, while her cache entry exists.
C15_Witness ==
    /\ wk["w1"].rpc.method = MethodLogin
    /\ wk["w1"].pc = "rpc_done"
    /\ wk["w1"].rpc.code = CodeSuccess
    /\ wk["w1"].out.profile.ID = AliceId
    /\ users[AliceId].PasswordHash = BcryptHash(TestPassword)
    /\ UserCacheKey(AliceId) \in DOMAIN kv

\* C16: a request that entered its handler is answered with status OK and a
\* business code, zero exactly when the service call succeeded, whatever the
\* service returned (validation, credential, limit, token, missing user or
\* internal error); the only other status a request gets is Unauthenticated,
\* set by AuthInterceptor before the handler is entered, with no code.
C16_BusinessOutcomesAreOK ==
    /\ [](\A w \in OneWorker :
            LET rpc == wk[w].rpc
                inHandler == \E i \in DOMAIN rpc.layers : rpc.layers[i] = "Handler"
            IN
            /\ rpc.status \in {"none", "OK", "Unauthenticated"}
            /\ rpc.status = "OK" => inHandler
            /\ (inHandler /\ wk[w].pc = "rpc_done") =>
                    /\ rpc.status = "OK"
                    /\ rpc.code \in {CodeSuccess, CodeInvalidParams, CodeInvalidCredential,
                                     CodeUnauthorized, CodeUserNotFound, CodeTooManyRequests,
                                     CodeInternalError}
                    /\ rpc.code = CodeSuccess <=> wk[w].out.err = "nil"
            /\ rpc.status = "Unauthenticated" =>
                    /\ rpc.layers = <<"Recovery", "Logging", "Auth">>
                    /\ rpc.code = NilRpc.code)
    /\ [][\A w \in OneWorker :
            (wk[w].pc = "ret" /\ wk'[w].pc # "ret") =>
                \/ wk'[w].pc = "rpc_done" /\ wk'[w].rpc.status = "OK"
                \/ wk'[w].pc # "rpc_done" /\ wk'[w].rpc.status = "none"]_vars

\* The sixth Login after five failures was answered with status OK and the
\* code of the limit.
C16_Witness ==
    /\ wk["w1"].rpc.method = MethodLogin
    /\ wk["w1"].pc = "rpc_done"
    /\ wk["w1"].rpc.status = "OK"
    /\ wk["w1"].rpc.code = CodeTooManyRequests
    /\ wk["w1"].out.err = "ErrLoginLimitExceeded"

\* C17: the code of a handler's response is that of the table: 0 for success,
\* 40001 for each validation error, 40002 for invalid credentials, 40003 for
\* an invalid token, 40004 for a missing user, 42901 for the login limit and
\* 50001 for every other error a service method returns (session-create
\* failure, failed Logout, failed lookup, failed update, failed re-query).
C17_CodeTable ==
    LET table(err) ==
            IF err = "nil" THEN 0
            ELSE IF err \in {"ErrUsernameEmpty", "ErrUsernameInvalid", "ErrPasswordEmpty",
                             "ErrPasswordTooShort", "ErrPasswordTooLong", "ErrNicknameEmpty",
                             "ErrNicknameTooLong", "ErrTokenEmpty", "ErrPictureURLEmpty",
                             "ErrUserIDInvalid"} THEN 40001
            ELSE IF err = "ErrInvalidCredentials" THEN 40002
            ELSE IF err = "ErrInvalidToken" THEN 40003
            ELSE IF err = "ErrUserNotFound" THEN 40004
            ELSE IF err = "ErrLoginLimitExceeded" THEN 42901
            ELSE IF err \in {"ErrSessionCreateFailed", "LogoutFailed", "GetProfileFailed",
                             "RequeryFailed", "UpdateNicknameFailed",
                             "UpdateProfilePictureFailed"} THEN 50001
            ELSE 0 - 1
    IN
    /\ \A w \in OneWorker :
            (wk[w].pc = "rpc_done" /\ wk[w].rpc.status = "OK") =>
                wk[w].rpc.code = table(wk[w].out.err)
    /\ \A err \in ValidationErrors \cup {"ErrInvalidCredentials", "ErrInvalidToken",
                        "ErrUserNotFound", "ErrLoginLimitExceeded", "ErrSessionCreateFailed",
                        "LogoutFailed", "GetProfileFailed", "RequeryFailed",
                        "UpdateNicknameFailed", "UpdateProfilePictureFailed"} :
            mapServiceError(err) = table(err)

\* A GetProfile for the session of a user without a row was answered 40004
\* after an earlier Login ended in a session-create failure.
C17_Witness ==
    /\ wk["w1"].rpc.method = MethodGetProfile
    /\ wk["w1"].pc = "rpc_done"
    /\ wk["w1"].out.err = "ErrUserNotFound"
    /\ wk["w1"].rpc.code = CodeUserNotFound
    /\ uuidSeq = 1
    /\ SessionKey(Uuid(1)) \notin DOMAIN kv

\* C18: AuthInterceptor passes a Login request on to Metrics and the handler
\* whatever its metadata (absent, empty, no session, a live session), without
\* a session lookup: no user id enters the context and no status is set.  Of
\* the five methods Login alone is public: a request of any other method
\* whose metadata is absent, empty or no live session ends Unauthenticated.
C18_LoginAllowlisted ==
    /\ [](\A m \in RpcMethods : AuthPublic(m) <=> m = MethodLogin)
    /\ [][\A w \in OneWorker :
            LET rpc == wk[w].rpc IN
            (wk[w].pc = "rpc_auth" /\ wk'[w] # wk[w]) =>
                IF rpc.method = MethodLogin
                THEN /\ wk'[w].pc = "rpc_metrics"
                     /\ wk'[w].rpc.ctxUserID = 0
                     /\ wk'[w].rpc.status = "none"
                     /\ wk'[w].rpc.layers = <<"Recovery", "Logging", "Auth">>
                ELSE (\/ ~rpc.md.ok
                      \/ Len(rpc.md.authorization) = 0
                      \/ SessionKey(rpc.md.authorization[1]) \notin DOMAIN kv)
                        => /\ wk'[w].pc = "rpc_done"
                           /\ wk'[w].rpc.status = "Unauthenticated"]_vars
    /\ [](\A w \in OneWorker :
            (wk[w].rpc.method = MethodLogin /\ wk[w].pc \notin {"rpc_auth", "rpc_metrics"}) =>
                \E i \in DOMAIN wk[w].rpc.layers : wk[w].rpc.layers[i] = "Handler")

\* A Login whose metadata carries a token that is no session was answered
\* with success.
C18_Witness ==
    /\ wk["w1"].rpc.method = MethodLogin
    /\ wk["w1"].rpc.md = Metadata(<<BadToken>>)
    /\ wk["w1"].pc = "rpc_done"
    /\ wk["w1"].rpc.status = "OK"
    /\ wk["w1"].rpc.code = CodeSuccess
    /\ wk["w1"].rpc.ctxUserID = 0

\* C19: a successful UpdateNickname(id, n) returns a profile with nickname n,
\* and a successful UpdateProfilePicture(id, p) one with picture p, when no
\* other update of id overlaps the call, also while GetProfile calls for id
\* are in flight.
C19_UpdateReturnsNewValue ==
    \A w \in Workers :
        (wk[w].pc = "ret" /\ wk[w].out.err = "nil") =>
            /\ wk[w].svc = "UpdateNickname" =>
                    wk[w].out.profile.Nickname = wk[w].dto.Nickname
            /\ wk[w].svc = "UpdateProfilePicture" =>
                    wk[w].out.profile.ProfilePicture = wk[w].dto.ProfilePicture


\* C20: the delayed second delete of an update removes user:{id}; an entry a
\* reader wrote from the pre-update row after the first delete and before
\* the timer fired is therefore gone once the second delete has run.
C20_SecondDeleteEvictsStale ==
    [][\A t \in BagToSet(delQ) :
          (delQ' = delQ (-) SetToBag({t})) =>
              UserCacheKey(t.id) \notin DOMAIN kv']_vars

\* The writer's re-read hit the entry written from the pre-update row, the
\* only update's timer has fired since, and the entry is gone.
C20_Witness ==
    /\ wk["w1"].svc = "UpdateNickname"
    /\ wk["w1"].pc = "ret"
    /\ wk["w1"].out.err = "nil"
    /\ wk["w1"].out.profile.Nickname = NickAlice
    /\ users[AliceId].Nickname = NickAlicia
    /\ users[AliceId].ProfilePicture = Pic0
    /\ setQ = EmptyBag
    /\ delQ = EmptyBag
    /\ UserCacheKey(AliceId) \notin DOMAIN kv

\* C21: whenever no call is in progress, no SetUser goroutine is pending and
\* no delayed delete is armed, user:{id} of a user with a row is absent or
\* holds the public fields of that row as it is now.
C21_QuiescentCacheConsistent ==
    (/\ \A w \in Workers : wk[w].pc = "idle"
     /\ setQ = EmptyBag
     /\ delQ = EmptyBag)
        => \A id \in DOMAIN users :
              UserCacheKey(id) \in DOMAIN kv =>
                  kv[UserCacheKey(id)].val = SetUser(kv, users[id])[UserCacheKey(id)].val

C23_DeleteUpdateArmOrder ==
    [][\A w \in Workers :
          /\ (wk'[w].pc = "upd_db" /\ wk'[w] # wk[w]) =>
                /\ wk[w].pc = "upd_del"
                /\ kv' = kv \/ kv' = DeleteUser(kv, wk[w].uid)
                /\ users' = users
                /\ delQ' = delQ
          /\ (wk'[w] # wk[w] /\ users' # users) =>
                /\ wk[w].pc = "upd_db"
                /\ wk'[w].pc = "gbi_cache"
                /\ users'[wk[w].uid][UpdateColumnOf(wk[w].svc)] = UpdateValueOf(wk[w].svc, wk[w].dto)
          /\ (wk'[w] # wk[w] /\ delQ' # delQ) =>
                /\ users' # users
                /\ delQ' = delQ (+) SetToBag({[id |-> wk[w].uid, svc |-> wk[w].svc]})]_vars

\* An UpdateProfilePicture call has deleted, updated the row and armed its
\* second delete, and is about to read the user back.
C23_Witness ==
    /\ wk["w1"].svc = "UpdateProfilePicture"
    /\ wk["w1"].pc = "gbi_cache"
    /\ users[AliceId].ProfilePicture = Pic1
    /\ delQ = SetToBag({[id |-> AliceId, svc |-> "UpdateProfilePicture"]})

\* C24: with concurrent Login calls for one username the failure counter
\* never exceeds 5 (so no more than 5 failed attempts of a window got as far
\* as the store lookup and RecordLoginFail).
C24_CounterAtMostFive ==
    \A u \in DOMAIN win : FailCount(u) <= MaxLoginFailures

\* C25: a failure counter that locks its user out (5 or more, its first
\* RecordLoginFail over) carries the TTL that the increment yielding 1 set,
\* so that the lockout ends when the 15 minutes of the window are over.
C25_LockoutCounterExpires ==
    \A u \in DOMAIN win :
        (/\ FailCount(u) >= MaxLoginFailures
         /\ \A w \in Workers : ~(wk[w].pc = "login_expire" /\ wk[w].dto.Username = u))
            => kv[LoginFailKey(u)].ttl > 0

\* C26: a Login call (valid input, the limiter read answered) that makes its
\* limiter check while the failure counter of its username is 5 or more
\* returns ErrLoginLimitExceeded there and then, whatever its password: it
\* makes no store lookup, and the KvStore (counter and sessions), the users
\* table and the tokens issued are as before.
C26_LockedOutLoginChangesNothing ==
    [][\A w \in Workers :
          (/\ wk[w].pc = "login_limit"
           /\ wk'[w] # wk[w]
           /\ FailCount(wk[w].dto.Username) >= MaxLoginFailures)
              => /\ wk'[w].pc = "ret"
                 /\ wk'[w].out = Result("ErrLoginLimitExceeded", Empty, NilProfile)
                 /\ kv' = kv
                 /\ users' = users
                 /\ uuidSeq' = uuidSeq
                 /\ issued' = issued
                 /\ \A u \in DOMAIN win : win'[u].lookups = win[u].lookups]_vars

\* alice has been rejected by the limiter on a Login with her correct
\* password, after five failures.
C26_Witness ==
    /\ wk["w1"].svc = "Login"
    /\ wk["w1"].pc = "ret"
    /\ wk["w1"].dto.Username = alice
    /\ wk["w1"].dto.Password = TestPassword
    /\ wk["w1"].out.err = "ErrLoginLimitExceeded"
    /\ FailCount(alice) = MaxLoginFailures
    /\ issued = NoKeys

\* C27: an update call that reaches its store write after the deadline of its
\* context has elapsed does not write: the row stays as it was and the call
\* fails with a timeout.
C27_NoWriteAfterDeadline ==
    [][\A w \in Workers :
          (/\ ctxDone[w]
           /\ wk[w].pc = "upd_db"
           /\ wk'[w] # wk[w])
              => /\ users' = users
                 /\ wk'[w].pc = "ret"
                 /\ wk'[w].out.err = "Timeout"]_vars

\* C28: an UpdateNickname or UpdateProfilePicture call (valid input) for a
\* user id without a row returns ErrUserNotFound, which the handler maps to
\* business code 40004.
C28_MissingRowIsUserNotFound ==
    \A w \in Workers :
        (/\ wk[w].svc \in {"UpdateNickname", "UpdateProfilePicture"}
         /\ wk[w].pc = "ret"
         /\ ValidateUpdate(wk[w].svc, wk[w].dto) = "nil"
         /\ wk[w].dto.UserID \notin DOMAIN users)
            => /\ wk[w].out.err = "ErrUserNotFound"
               /\ mapServiceError(wk[w].out.err) = CodeUserNotFound

\* C29: in GetProfile, a cache lookup that fails sends the read on to the
\* store; the lookup never ends the call with an error; and the store read of
\* a user with a row, when the store answers, returns that row's profile.
C29_CacheErrorFallsThrough ==
    [][\A w \in Workers :
          wk[w].svc = "GetProfile" =>
              /\ GetByIDCache(w, {TRUE}) =>
                    /\ wk'[w].pc = "gbi_db"
                    /\ wk'[w].uid = wk[w].uid
              /\ (wk[w].pc = "gbi_cache" /\ wk'[w] # wk[w]) =>
                    \/ wk'[w].pc = "gbi_db"
                    \/ wk'[w].pc = "ret" /\ wk'[w].out.err = "nil"
              /\ (GetByIDStore(w, NoFault) /\ wk[w].uid \in DOMAIN users) =>
                    /\ wk'[w].pc = "ret"
                    /\ wk'[w].out.err = "nil"
                    /\ wk'[w].out.profile =
                          Profile(wk[w].uid, users[wk[w].uid].Username,
                                  users[wk[w].uid].Nickname,
                                  users[wk[w].uid].ProfilePicture)]_vars

\* A GetProfile call returned alice's profile from the store (its SetUser
\* goroutine is still pending) although user:{id} held an entry all along:
\* its cache lookup had failed.
C29_Witness ==
    /\ wk["w1"].rpc.method = MethodGetProfile
    /\ wk["w1"].svc = "GetProfile"
    /\ wk["w1"].pc = "ret"
    /\ wk["w1"].out.err = "nil"
    /\ wk["w1"].out.profile.ID = AliceId
    /\ setQ # EmptyBag
    /\ UserCacheKey(AliceId) \in DOMAIN kv

\* C30: a GetOrLoad call whose cache lookup fails goes on to the loader, as on
\* a miss: the lookup ends the call only with a cached user, never with an
\* error.
C30_GetOrLoadDegrades ==
    [][\A w \in Workers :
          (/\ wk[w].svc = "GetOrLoad"
           /\ wk[w].pc = "gol_cache"
           /\ wk'[w] # wk[w])
              => \/ wk'[w].pc = "gol_load"
                 \/ /\ wk'[w].pc = "ret"
                    /\ wk'[w].out.err = "nil"
                    /\ wk'[w].out.profile.ID = wk[w].uid]_vars

\* C31: the first DeleteUser of an update never ends the call: when it fails
\* the cache is left as it is and the call goes on to its UPDATE with the same
\* arguments; an UPDATE the store answers, changing the row, writes the new
\* value and arms the second delete; and the read back that follows returns
\* success when the store answers.
C31_FailedDeleteDoesNotFailWrite ==
    [][\A w \in Workers :
          wk[w].svc \in {"UpdateNickname", "UpdateProfilePicture"} =>
              /\ UpdateDelete(w, {TRUE}) =>
                    /\ kv' = kv
                    /\ wk'[w] = [wk[w] EXCEPT !.pc = "upd_db"]
              /\ (wk[w].pc = "upd_del" /\ wk'[w] # wk[w]) =>
                    /\ wk'[w].pc = "upd_db"
                    /\ wk'[w].dto = wk[w].dto
              /\ (/\ UpdateStore(w, NoFault)
                  /\ RowsAffected(users, wk[w].uid, UpdateColumnOf(wk[w].svc),
                                  UpdateValueOf(wk[w].svc, wk[w].dto)) > 0) =>
                    /\ users'[wk[w].uid][UpdateColumnOf(wk[w].svc)] =
                            UpdateValueOf(wk[w].svc, wk[w].dto)
                    /\ delQ' = delQ (+) SetToBag({[id |-> wk[w].uid, svc |-> wk[w].svc]})
                    /\ wk'[w].pc = "gbi_cache"
              /\ (wk[w].pc = "gbi_cache" /\ wk'[w] # wk[w]) =>
                    \/ wk'[w].pc = "gbi_db"
                    \/ wk'[w].pc = "ret" /\ wk'[w].out.err = "nil"
              /\ (GetByIDStore(w, NoFault) /\ wk[w].uid \in DOMAIN users) =>
                    /\ wk'[w].pc = "ret"
                    /\ wk'[w].out.err = "nil"]_vars

\* An UpdateNickname RPC has succeeded, the row is updated and the second
\* delete armed, although its first delete failed: user:{id} has held an entry
\* since the request arrived, and the SetUser goroutines of the handler's
\* GetProfile and of the read back (both read the store) have not run yet.
C31_Witness ==
    /\ wk["w1"].rpc.method = MethodUpdateNickname
    /\ wk["w1"].svc = "UpdateNickname"
    /\ wk["w1"].pc = "ret"
    /\ wk["w1"].out.err = "nil"
    /\ users[AliceId].Nickname = NickAlicia
    /\ delQ = SetToBag({[id |-> AliceId, svc |-> "UpdateNickname"]})
    /\ BagCardinality(setQ) = 2
    /\ UserCacheKey(AliceId) \in DOMAIN kv

\* C32: a GetProfile whose store read fails ends there with the wrapped store
\* error: the step writes nothing to the KvStore and spawns no SetUser
\* goroutine; the handler answers it with business code 50001, again writing
\* nothing; and a GetProfile call writes a null marker only from its
\* SetNullCache step, reached when the store answered that there is no row.
C32_StoreErrorPropagates ==
    [][\A w \in Workers :
          wk[w].svc = "GetProfile" =>
              /\ GetByIDStore(w, {TRUE}) =>
                    /\ wk'[w].pc = "ret"
                    /\ wk'[w].out = Result("GetProfileFailed", Empty, NilProfile)
                    /\ kv' = kv
                    /\ setQ' = setQ
              /\ (/\ wk[w].pc = "ret"
                  /\ wk[w].out.err = "GetProfileFailed"
                  /\ wk[w].rpc.method = MethodGetProfile
                  /\ wk'[w] # wk[w]) =>
                    /\ wk'[w].pc = "rpc_done"
                    /\ wk'[w].rpc.status = "OK"
                    /\ wk'[w].rpc.code = CodeInternalError
                    /\ kv' = kv
                    /\ setQ' = setQ
              /\ (wk'[w].pc = "gbi_null" /\ wk'[w] # wk[w]) =>
                    /\ GetByIDStore(w, NoFault)
                    /\ wk[w].uid \notin DOMAIN users]_vars

\* A GetProfile RPC with alice's session was answered 50001 after its store
\* read failed; user:{id} of alice holds neither a marker nor an entry.
C32_Witness ==
    /\ wk["w1"].rpc.method = MethodGetProfile
    /\ wk["w1"].pc = "rpc_done"
    /\ wk["w1"].out.err = "GetProfileFailed"
    /\ wk["w1"].uid = AliceId
    /\ wk["w1"].rpc.code = CodeInternalError
    /\ UserCacheKey(AliceId) \notin DOMAIN kv
    /\ setQ = EmptyBag

\* C33: an RPC of a method other than Login whose metadata does not carry
\* exactly one non-empty authorization value (none, an empty one, or more than
\* one) never gets past Auth: neither Metrics nor the handler is entered.
C33_ExactlyOneAuthorizationValue ==
    \A w \in Workers :
        LET rpc == wk[w].rpc IN
        (/\ rpc.method \notin {"none", MethodLogin}
         /\ \/ ~rpc.md.ok
            \/ Len(rpc.md.authorization) # 1
            \/ rpc.md.authorization[1] = Empty)
            => /\ \A i \in 1..Len(rpc.layers) : rpc.layers[i] \notin {"Metrics", "Handler"}
               /\ wk[w].pc \in {"rpc_auth", "rpc_done"}
               /\ wk[w].pc = "rpc_done" => rpc.status = "Unauthenticated"

\* C34: a Login whose read of the failure counter fails goes on to the store
\* lookup with nothing changed, whatever the counter holds; the limiter step
\* rejects a call only on a counter it read, of 5 or more; and the lookup that
\* follows, when the store answers, leads a matching password to session
\* creation and anything else to RecordLoginFail.
C34_LimiterReadFailureAllows ==
    [][\A w \in Workers :
          /\ LoginCheckLimit(w, {TRUE}) =>
                /\ wk'[w] = [wk[w] EXCEPT !.pc = "login_lookup"]
                /\ kv' = kv
          /\ (wk[w].pc = "login_limit" /\ wk'[w] # wk[w] /\ wk'[w].pc # "login_lookup") =>
                /\ wk'[w].pc = "ret"
                /\ wk'[w].out.err = "ErrLoginLimitExceeded"
                /\ FailCount(wk[w].dto.Username) >= MaxLoginFailures
          /\ LoginLookup(w, NoFault) =>
                LET user == SelectByUsername(users, wk[w].dto.Username) IN
                wk'[w].pc = IF /\ user # NilUser
                               /\ CompareHashAndPassword(user.PasswordHash, wk[w].dto.Password)
                            THEN "login_session"
                            ELSE "login_incr"]_vars

\* alice's Login passed the limiter and the password check while her failure
\* counter stood at the limit: the read of the counter had failed.
C34_Witness ==
    /\ wk["w1"].svc = "Login"
    /\ wk["w1"].pc = "login_session"
    /\ wk["w1"].dto.Username = alice
    /\ wk["w1"].user.ID = AliceId
    /\ FailCount(alice) >= MaxLoginFailures

\* C35: a Login whose CreateSession fails returns ErrSessionCreateFailed with
\* no token and no profile, leaving the KvStore (no session, the failure
\* counter as it was) and the issued tokens unchanged; the session step ends a
\* call in no other way; and the handler's answer to that result changes the
\* KvStore no more.
C35_SessionCreateFailed ==
    [][\A w \in Workers :
          /\ LoginCreateSession(w, {TRUE}) =>
                /\ wk'[w].pc = "ret"
                /\ wk'[w].out = Result("ErrSessionCreateFailed", Empty, NilProfile)
                /\ kv' = kv
                /\ issued' = issued
          /\ (wk[w].pc = "login_session" /\ wk'[w] # wk[w] /\ wk'[w].pc = "ret") =>
                /\ wk'[w].out = Result("ErrSessionCreateFailed", Empty, NilProfile)
                /\ kv' = kv
          /\ (/\ wk[w].pc = "ret"
              /\ wk[w].out.err = "ErrSessionCreateFailed"
              /\ wk'[w] # wk[w]) =>
                /\ kv' = kv
                /\ issued' = issued
                /\ wk'[w].rpc.code = CodeInternalError]_vars

\* alice's Login with her password, made after a failed attempt, ended in
\* ErrSessionCreateFailed: no token, no session, and her counter still 1.
C35_Witness ==
    /\ wk["w1"].svc = "Login"
    /\ wk["w1"].pc = "ret"
    /\ wk["w1"].dto.Password = TestPassword
    /\ wk["w1"].out = Result("ErrSessionCreateFailed", Empty, NilProfile)
    /\ FailCount(alice) = 1
    /\ \A n \in 1..MaxTokens : SessionKey(Uuid(n)) \notin DOMAIN kv
    /\ issued = NoKeys

\* C36: a Login reaches its ResetLoginFail only with the session of its token
\* created for the user whose password matched, and always returns success
\* with that token from there; when the reset is answered the failure counter
\* of the username is absent right after the step and nothing else in the
\* KvStore has changed; when the reset fails the KvStore is as before and the
\* call succeeds all the same.
C36_SuccessResetsCounter ==
    [][\A w \in Workers :
          LET u == wk[w].dto.Username
              token == wk[w].out.token
          IN
          /\ (wk[w].pc = "login_reset" /\ wk'[w] # wk[w]) =>
                /\ SessionKey(token) \in DOMAIN kv
                /\ ValidateSession(kv, token, FALSE) = [userID |-> wk[w].user.ID, err |-> "nil"]
                /\ SelectByUsername(users, u).ID = wk[w].user.ID
                /\ wk'[w].pc = "ret"
                /\ wk'[w].out = Result("nil", token, ToProfile(wk[w].user))
          /\ LoginResetFail(w, NoFault) =>
                /\ LoginFailKey(u) \notin DOMAIN kv'
                /\ FailCount(u)' = 0
                /\ \A key \in DOMAIN kv \ {LoginFailKey(u)} :
                        key \in DOMAIN kv' /\ kv'[key] = kv[key]
          /\ LoginResetFail(w, {TRUE}) => kv' = kv]_vars

\* A Login of alice has succeeded and her failure counter is absent, while a
\* concurrent failed attempt still stands between the INCR that created the
\* counter (no TTL yet) and its Expire: the reset removed that counter.
C36_Witness ==
    /\ wk["w1"].svc = "Login"
    /\ wk["w1"].pc = "ret"
    /\ wk["w1"].out.err = "nil"
    /\ wk["w1"].out.token \in DOMAIN issued
    /\ SessionKey(wk["w1"].out.token) \in DOMAIN kv
    /\ wk["w2"].pc = "login_expire"
    /\ wk["w2"].dto.Username = alice
    /\ LoginFailKey(alice) \notin DOMAIN kv

C38_WaitNextMillis ==
    /\ [][\A c \in Callers :
            /\ (sfPc[c] = "locked" /\ sfPc'[c] = "wait") =>
                  /\ sequence = maxSequence
                  /\ sequence' = 0
                  /\ sfNow'[c] = timestamp
                  /\ lastId # NoId => ParseSnowflakeID(lastId).timestamp = timestamp
            /\ (sfPc[c] = "locked" /\ sequence = maxSequence /\ sfPc'[c] = "assemble") =>
                  sfNow'[c] > timestamp
            /\ sfPc[c] = "wait" =>
                  /\ UNCHANGED <<timestamp, sequence, lastId, maxPrev, lastCall, mu>>
                  /\ sfPc'[c] # "wait" =>
                        /\ sfPc'[c] = "assemble"
                        /\ sfNow'[c] > timestamp
                        /\ sequence = 0
            /\ (sfPc[c] = "assemble" /\ sfPc'[c] = "idle" /\ sequence = 0
                   /\ lastCall'.err = "nil") =>
                  /\ ParseSnowflakeID(lastId') =
                        [timestamp |-> sfNow[c], machineID |-> machineID, sequence |-> 0]
                  /\ sfNow[c] > timestamp
                  /\ lastId' > lastId
                  /\ lastId' > maxPrev']_vars
    /\ \A c \in OneCaller :
          (sfPc[c] = "wait" /\ sfNow[c] < MaxClock)
              ~> (sfPc[c] = "idle" /\ lastCall.err = "nil" /\ timestamp > 0
                    /\ ParseSnowflakeID(lastId).sequence = 0)

\* A NextID call is waiting: the last id issued has sequence 4095 in the
\* millisecond s.timestamp, and the sequence has wrapped to 0.
C38_Witness ==
    /\ sfPc["c1"] = "wait"
    /\ sequence = 0
    /\ sfNow["c1"] = timestamp
    /\ sfNow["c1"] < MaxClock
    /\ ParseSnowflakeID(lastId) =
          [timestamp |-> timestamp, machineID |-> defaultMachineID, sequence |-> maxSequence]

\* C39: a session key appears in the KvStore, or changes its value, only in
\* the CreateSession step of a Login whose DTO passed validation, whose user
\* row was found and whose password matched the stored hash; the value
\* stored is that user's id under the token the Login returns.  A Login is at
\* that step only after the limiter let it through, and a Login that answers
\* an error, like every other operation, leaves the session keys as they are.
C39_SessionsOnlyFromVerifiedLogin ==
    [][/\ \A key \in DOMAIN kv' :
            (/\ key[1] = SessionKeyPrefix
             /\ key \notin DOMAIN kv \/ kv'[key].val # kv[key].val) =>
               \E w \in Workers :
                   LET row == SelectByUsername(users, wk[w].dto.Username) IN
                   /\ wk[w].svc = "Login"
                   /\ wk[w].pc = "login_session"
                   /\ wk'[w].pc = "login_reset"
                   /\ ValidateLogin(wk[w].dto) = "nil"
                   /\ row # NilUser
                   /\ CompareHashAndPassword(row.PasswordHash, wk[w].dto.Password)
                   /\ wk[w].user.ID = row.ID
                   /\ key = SessionKey(wk'[w].out.token)
                   /\ kv'[key].val = IntString(row.ID)
                   /\ kv'[key].ttl = SessionTTL
       /\ \A w \in Workers :
            /\ (wk[w].pc = "login_limit" /\ wk'[w].pc \notin {"login_limit", "ret"}) =>
                  /\ wk'[w].pc = "login_lookup"
                  /\ \/ FailCount(wk[w].dto.Username) < MaxLoginFailures
                     \/ ~LoginCheckLimit(w, NoFault)
            /\ (wk[w].pc = "login_lookup" /\ wk'[w].pc = "login_session") =>
                  /\ wk'[w].user = SelectByUsername(users, wk[w].dto.Username)
                  /\ wk'[w].user # NilUser
                  /\ CompareHashAndPassword(wk'[w].user.PasswordHash, wk[w].dto.Password)
            /\ wk'[w].pc = "login_session" => wk[w].pc \in {"login_lookup", "login_session"}
            /\ wk'[w].pc = "login_lookup" => wk[w].pc \in {"login_limit", "login_lookup"}
            /\ (/\ wk[w].svc = "Login"
                /\ wk[w].pc # "ret"
                /\ wk'[w].pc = "ret"
                /\ wk'[w].out.err # "nil") =>
                  /\ wk'[w].out.token = Empty
                  /\ \A key \in DOMAIN kv' :
                        key[1] = SessionKeyPrefix => key \in DOMAIN kv /\ kv'[key] = kv[key]]_vars

\* After failed attempts for alice, a Login has stored the first session the
\* service ever created, for alice's id, and is about to reset the counter.
C39_Witness ==
    /\ wk["w1"].svc = "Login"
    /\ wk["w1"].pc = "login_reset"
    /\ wk["w1"].dto.Username = alice
    /\ FailCount(alice) >= 1
    /\ uuidSeq = 1
    /\ SessionKey(wk["w1"].out.token) \in DOMAIN kv
    /\ kv[SessionKey(wk["w1"].out.token)].val = IntString(AliceId)

\* C40: the DestroySession step of Logout(t) removes sess:{t} and leaves
\* every other key of the KvStore as it was, so every other session, of the
\* same user or another, validates to the same userId right after it; and no
\* step of a Login removes or changes a session that existed before it: the
\* CreateSession step adds one key, of a token that named no session.
C40_LogoutDestroysOnlyItsSession ==
    [][\A w \in Workers :
          /\ (wk[w].pc = "logout_destroy" /\ wk'[w] # wk[w]) =>
                LET t == wk[w].dto.Token IN
                /\ SessionKey(t) \notin DOMAIN kv'
                /\ DOMAIN kv' = DOMAIN kv \ {SessionKey(t)}
                /\ \A key \in DOMAIN kv' : kv'[key] = kv[key]
                /\ \A n \in 1..MaxTokens :
                      Uuid(n) # t =>
                        ValidateSession(kv', Uuid(n), FALSE) = ValidateSession(kv, Uuid(n), FALSE)
          /\ (wk[w].svc = "Login" /\ wk'[w] # wk[w]) =>
                /\ \A key \in DOMAIN kv :
                      key[1] = SessionKeyPrefix => key \in DOMAIN kv' /\ kv'[key] = kv[key]
                /\ \A n \in 1..MaxTokens :
                      SessionKey(Uuid(n)) \in DOMAIN kv =>
                        ValidateSession(kv', Uuid(n), FALSE) = ValidateSession(kv, Uuid(n), FALSE)
                /\ wk[w].pc = "login_session" =>
                      /\ SessionKey(wk'[w].out.token) \notin DOMAIN kv
                      /\ DOMAIN kv' = DOMAIN kv \cup {SessionKey(wk'[w].out.token)}]_vars

\* alice logged in twice; a Logout of one of her tokens has returned nil,
\* that session is gone and her other token still validates to her id.
C40_Witness ==
    \E w \in Workers, n \in 1..MaxTokens :
        LET t == wk[w].dto.Token IN
        /\ wk[w].svc = "Logout"
        /\ wk[w].pc = "ret"
        /\ wk[w].out.err = "nil"
        /\ t \in DOMAIN issued
        /\ t \in ended
        /\ SessionKey(t) \notin DOMAIN kv
        /\ Uuid(n) # t
        /\ Uuid(n) \in DOMAIN issued
        /\ issued[Uuid(n)] = issued[t]
        /\ ValidateSession(kv, Uuid(n), FALSE) = [userID |-> AliceId, err |-> "nil"]

====
